---- MODULE Spec2Model ----
(***************************************************************************)
(* AudioRecorder (python-for-inspiration/recorder.py): one controlling     *)
(* thread calling start_recording / stop_recording / close /               *)
(* get_current_stats, and the background threads running                   *)
(* _recording_worker, over the PortAudio streams the recorder opens.       *)
(* DeviceManager (docs/reference-python-version/devices.py): the device    *)
(* listing, its cache and the device selection of one open manager, over   *)
(* a platform whose endpoints and defaults change.                         *)
(***************************************************************************)
EXTENDS Integers, Sequences, FiniteSets, TLC

\* ---------------------------------------------------------------- bounds
MaxStarts == 2      \* successful stream opens (one stream and one thread each)
MaxChunks == 2      \* non-empty buffers the streams deliver in total
MaxTime == 2        \* clock horizon, in seconds
MaxDur == 1         \* largest configured max_duration
MaxCalls == 3       \* calls the controlling thread makes on the session
MaxEndpoints == 2   \* endpoints the platform reports
MaxHostApis == 2    \* host APIs the machine reports
MaxLookups == 2     \* lookups of one quality name
ManualSeconds == 3  \* loop iterations in manual mode (7200 in main.py)

\* RecordingConfig.chunk_size
chunk_size == 4096

\* AudioRecorder._audio_threshold
audio_threshold == 100

Ids == 1..MaxStarts

\* ---------------------------------------------------------------- state
VARIABLES
    config,           \* self._config
    audio,            \* self._audio: "live" or "None"
    stream,           \* self._stream: 0 is None, else a stream id
    recording,        \* self._recording
    thread,           \* self._recording_thread: 0 is None, else a worker id
    frames,           \* self._frames
    stats,            \* self._stats
    frames_captured,  \* self._frames_captured
    streams,          \* the PortAudio stream objects opened so far
    workers,          \* the _recording_worker threads started so far
    file,             \* the output file on disk
    now,              \* time.time() / datetime.now()
    nchunks,          \* buffers delivered so far
    cpc,              \* position of the controlling thread
    inClose,          \* the running stop_recording() was called by close()
    result,           \* outcome of the last finished call
    calls,            \* calls made so far
    hist,             \* history of the session, read by the properties only
    has_audio_detected,  \* self._has_audio_detected
    returned,         \* what the last get_current_stats() returned
    host,             \* the machine a DeviceManager is constructed on
    platform,         \* the audio subsystem DeviceManager queries
    devices_cache,    \* DeviceManager._devices_cache
    dm_result,        \* outcome of the last DeviceManager call
    dm_listed,        \* the last successful listing, read by the properties
    input,            \* the arguments of a function that is applied alone
    output,           \* what the function returned for them
    record_worker,    \* quick_record: its arguments, the position and the
                      \* loop index of its record_worker thread
    statuses,         \* the texts written to the status file, the last one
                      \* being its content
    signal            \* the stop marker <session_id>.stop exists

\* the recorder's variables
recvars == <<config, audio, stream, recording, thread, frames, stats,
             frames_captured, streams, workers, file, now, nchunks, cpc,
             inClose, result, calls, hist, has_audio_detected, returned>>

\* the device manager's variables
devvars == <<host, platform, devices_cache, dm_result, dm_listed>>

\* a function applied alone
purevars == <<input, output>>

\* quick_record and its files
quickvars == <<record_worker, statuses, signal>>

\* what the recorder leaves alone
envvars == <<devvars, purevars, quickvars>>

\* what the device manager leaves alone
nondevvars == <<recvars, purevars, quickvars>>

vars == <<recvars, devvars, purevars, quickvars>>

\* the host APIs of the platform, by host API index (from 1 here); the
\* DeviceManager exists only where "Windows WASAPI" is among them
HostApiNames == <<"MME", "Windows WASAPI">>

\* device names the platform reports: one that holds the indicator
\* "speakers (" in mixed case, one that holds no indicator
SpeakersName == "Speakers (R)"

MicName == "Mic"

\* AudioDevice; NoDevice stands for None
NoDevice == [index |-> -1, name |-> "", max_input_channels |-> 0,
             max_output_channels |-> 0, host_api |-> "",
             is_loopback |-> FALSE, is_default |-> FALSE]

\* a device the caller has configured: a loopback device on Windows WASAPI
ExplicitDevice == [index |-> 0, name |-> SpeakersName,
                   max_input_channels |-> 4, max_output_channels |-> 2,
                   host_api |-> HostApiNames[2], is_loopback |-> TRUE,
                   is_default |-> FALSE]

\* RecordingConfig: max_duration is Optional[int] (maxSet = FALSE is None)
NoConfig == [present |-> FALSE, maxSet |-> FALSE, max_duration |-> 0,
             audio_format |-> "wav", device |-> NoDevice, channels |-> 0]

\* RecordingConfig(device=device, channels=channels), as set_device_auto
\* builds it: the other fields take their defaults
DefaultConfig(device, channels) ==
    [present |-> TRUE, maxSet |-> FALSE, max_duration |-> 0,
     audio_format |-> "wav", device |-> device, channels |-> channels]

Configs == {NoConfig} \cup
           [present : {TRUE}, maxSet : {FALSE}, max_duration : {0},
            audio_format : {"wav", "m4a"}, device : {ExplicitDevice},
            channels : {2}] \cup
           [present : {TRUE}, maxSet : {TRUE}, max_duration : 0..MaxDur,
            audio_format : {"wav", "m4a"}, device : {ExplicitDevice},
            channels : {2}]

\* RecordingStats; present = FALSE is self._stats = None, ended = FALSE is
\* end_time = None
NoStats == [present |-> FALSE, start_time |-> 0, ended |-> FALSE,
            end_time |-> 0, duration |-> 0, file_size |-> 0,
            samples_recorded |-> 0]

NewStats(t) == [present |-> TRUE, start_time |-> t, ended |-> FALSE,
                end_time |-> 0, duration |-> 0, file_size |-> 0,
                samples_recorded |-> 0]

NoStream == [state |-> "unopened", closes |-> 0]

\* a _recording_worker thread: its position, its local start_time, the stream
\* object its pending read was called on; the other fields record its
\* history (lost: it left the loop because the stream reported itself
\* stopped or a read raised a device-unavailable error; retry: its last
\* read raised an error after which the loop goes on)
NoWorker == [pc |-> "none", start_time |-> 0, ref |-> 0, early |-> FALSE,
             late |-> 0, post |-> 0, cancelled |-> FALSE, resumed |-> FALSE,
             escaped |-> FALSE, lost |-> FALSE, retry |-> FALSE]

NoFile == [exists |-> FALSE, content |-> <<>>, nframes |-> 0, writes |-> 0]

\* what a call returned or raised: error is the exception class, msg its
\* message, cause its __cause__
NoResult == [op |-> "none", error |-> "none", msg |-> "none", cause |-> "none"]

Ok(op) == [op |-> op, error |-> "none", msg |-> "ok", cause |-> "none"]

\* the call has not returned yet
Pending(op) == [op |-> op, error |-> "none", msg |-> "pending",
                cause |-> "none"]

Raised(op, error, msg, cause) ==
    [op |-> op, error |-> error, msg |-> msg, cause |-> cause]

\* sessionOpen: a start() succeeded and stop() was not called since;
\* used: a stop() returned or raised, or a start() failed;
\* saves: encoder runs since the last successful start(); savedOk: the last
\* of them wrote the file; terminated: terminate() calls on the handle;
\* closes: close() calls that returned; saveFailed: the last stop() since the
\* last start() raised the save error; atStop: the chunks held when it did;
\* selfEnded: when the last stop() was called the loop of the recording had
\* ended on the duration limit
NoHist == [sessionOpen |-> FALSE, used |-> FALSE, saves |-> 0,
           savedOk |-> FALSE, terminated |-> 0, closes |-> 0,
           saveFailed |-> FALSE, atStop |-> 0, selfEnded |-> FALSE]

\* what get_current_stats() returned: kind "None", or kind "stats", a
\* reference to a RecordingStats object. at: the object's fields when the
\* call returned; live: self._stats still names the object; last: the
\* object's fields when self._stats stopped naming it
NoReturn == [kind |-> "none", at |-> NoStats, live |-> FALSE,
             last |-> NoStats]

\* the fields the caller reads through the returned reference now
Deref(r) == IF r.live THEN stats ELSE r.last

\* self._stats is rebound: a reference returned earlier keeps the old object
Detach(r) == IF r.live THEN [r EXCEPT !.live = FALSE, !.last = stats] ELSE r

Inc2(n) == IF n < 2 THEN n + 1 ELSE 2

Alive(w) == workers[w].pc \notin {"none", "done"}

NextId == Cardinality({i \in Ids : streams[i].state # "unopened"}) + 1

\* ------------------------------------------------- the device manager
\* the text operations work on sequences of characters
UpperLetters == <<"A", "B", "C", "D", "E", "F", "G", "H", "I", "J", "K", "L",
                  "M", "N", "O", "P", "Q", "R", "S", "T", "U", "V", "W", "X",
                  "Y", "Z">>

LowerLetters == <<"a", "b", "c", "d", "e", "f", "g", "h", "i", "j", "k", "l",
                  "m", "n", "o", "p", "q", "r", "s", "t", "u", "v", "w", "x",
                  "y", "z">>

LowerChar(c) == IF \E i \in 1..26 : UpperLetters[i] = c
                THEN LowerLetters[CHOOSE i \in 1..26 : UpperLetters[i] = c]
                ELSE c

\* str.lower()
lower(s) == [i \in 1..Len(s) |-> LowerChar(s[i])]

\* needle in hay, for two strings
Contains(needle, hay) ==
    \E i \in 1..(Len(hay) - Len(needle) + 1) :
      SubSeq(hay, i, i + Len(needle) - 1) = needle

\* _is_loopback_device: loopback_indicators
loopback_indicators == <<
    <<"l", "o", "o", "p", "b", "a", "c", "k">>,
    <<"s", "t", "e", "r", "e", "o", " ", "m", "i", "x">>,
    <<"w", "h", "a", "t", " ", "u", " ", "h", "e", "a", "r">>,
    <<"w", "a", "v", "e", " ", "o", "u", "t", " ", "m", "i", "x">>,
    <<"s", "p", "e", "a", "k", "e", "r", "s", " ", "(">>,
    <<"h", "e", "a", "d", "p", "h", "o", "n", "e", "s", " ", "(">>>>

\* the literal 'windows wasapi'
windows_wasapi == <<"w", "i", "n", "d", "o", "w", "s", " ", "w", "a", "s", "a", "p", "i">>

\* the characters of the names above
Spelling ==
    ("MME" :> <<"M", "M", "E">>) @@
    ("Windows WASAPI" :>
        <<"W", "i", "n", "d", "o", "w", "s", " ", "W", "A", "S", "A", "P", "I">>) @@
    ("Speakers (R)" :>
        <<"S", "p", "e", "a", "k", "e", "r", "s", " ", "(", "R", ")">>) @@
    ("Mic" :> <<"M", "i", "c">>) @@
    ("wav" :> <<"w", "a", "v">>) @@
    ("m4a" :> <<"m", "4", "a">>) @@
    ("M4A" :> <<"M", "4", "A">>) @@
    ("Windows DirectSound" :>
        <<"W", "i", "n", "d", "o", "w", "s", " ", "D", "i", "r", "e", "c", "t",
          "S", "o", "u", "n", "d">>)

\* name.lower(), for each of the names
Lowered == [s \in DOMAIN Spelling |-> lower(Spelling[s])]

\* _is_loopback_device, lines 288-290: some indicator is in the lower-cased
\* name, for each of the names
HoldsIndicator ==
    [s \in DOMAIN Spelling |->
       \E k \in 1..Len(loopback_indicators) :
         Contains(loopback_indicators[k], Lowered[s])]

\* the machine: PYAUDIO_AVAILABLE, whether pyaudio.PyAudio() returns, the
\* names get_host_api_info_by_index reports, whether the host API queries
\* return
Hosts == [pyaudio_available : BOOLEAN, starts : BOOLEAN,
          host_apis : UNION {[1..n -> {"MME", "Windows WASAPI",
                                       "Windows DirectSound"}] :
                                n \in 0..MaxHostApis},
          queries : BOOLEAN]

\* a machine on which a DeviceManager can be constructed
GoodHost == [pyaudio_available |-> TRUE, starts |-> TRUE,
             host_apis |-> HostApiNames, queries |-> TRUE]

\* _is_wasapi_available: some host API is named 'windows wasapi' in lower
\* case; a query that raises makes it False
is_wasapi_available(h) ==
    /\ h.queries
    /\ \E i \in 1..Len(h.host_apis) : Lowered[h.host_apis[i]] = windows_wasapi

\* _initialize_audio_system: what DeviceManager() raises, "none" where it
\* returns. The WASAPINotAvailableError of line 110 is raised inside the try
\* of line 104, whose handler (lines 117-119) raises AudioDeviceError from it
initialize_audio_system(h) ==
    IF ~h.pyaudio_available
    THEN [error |-> "AudioDeviceError", msg |-> "Audio system not available",
          cause |-> "none"]
    ELSE IF ~h.starts
    THEN [error |-> "AudioDeviceError", msg |-> "Could not initialize PyAudio",
          cause |-> "OSError"]
    ELSE IF ~is_wasapi_available(h)
    THEN [error |-> "AudioDeviceError", msg |-> "Could not initialize PyAudio",
          cause |-> "WASAPINotAvailableError"]
    ELSE [error |-> "none", msg |-> "none", cause |-> "none"]

\* an endpoint whose device-info query raises
BrokenEndpoint == [ok |-> FALSE, name |-> "", maxInputChannels |-> 0,
                   maxOutputChannels |-> 0, hostApi |-> 1]

\* an endpoint whose hostApi names no host API: its host-API query raises
OrphanEndpoint == [ok |-> TRUE, name |-> SpeakersName, maxInputChannels |-> 0,
                   maxOutputChannels |-> 2, hostApi |-> 3]

\* what get_device_info_by_index reports
Endpoints == [ok : {TRUE}, name : {SpeakersName, MicName},
              maxInputChannels : {0, 1, 4}, maxOutputChannels : {0, 2},
              hostApi : 1..2] \cup {BrokenEndpoint, OrphanEndpoint}

Topologies == UNION {[1..n -> Endpoints] : n \in 0..MaxEndpoints}

\* the subsystem: up = FALSE makes get_device_count raise; the defaults are
\* device indices (from 0), -1 where the platform reports no default
Platforms == {p \in [up : BOOLEAN, endpoints : Topologies,
                     default_input : -1..(MaxEndpoints - 1),
                     default_output : -1..(MaxEndpoints - 1)] :
                /\ p.default_input < Len(p.endpoints)
                /\ p.default_output < Len(p.endpoints)}

NoCache == [present |-> FALSE, list |-> <<>>]

NoDmResult == [op |-> "none", refresh |-> FALSE, error |-> "none",
               queried |-> FALSE, list |-> <<>>, device |-> NoDevice,
               capable |-> <<>>, msg |-> "none", cause |-> "none"]

NoListing == [done |-> FALSE, list |-> <<>>]

\* DeviceManager.__init__, on a platform that is up
DevInit ==
    /\ host = GoodHost
    /\ platform \in {p \in Platforms : p.up}
    /\ devices_cache = NoCache
    /\ dm_result = NoDmResult
    /\ dm_listed = NoListing

\* _is_loopback_device: "True", "False", or the TypeError that
\* 'wasapi' in device_info.get('hostApi', 0) raises, hostApi being an int;
\* the and of line 293 reaches that operand only with input channels > 0 and
\* output channels == 0
is_loopback_device(device_info) ==
    IF HoldsIndicator[device_info.name]
    THEN "True"
    ELSE IF device_info.maxInputChannels > 0 /\
            device_info.maxOutputChannels = 0
    THEN "TypeError"
    ELSE "False"

\* get_default_input_device_info / get_default_output_device_info return:
\* they raise where the platform reports no default, or where the device-info
\* query of the default endpoint raises
Reported(p, index) == index # -1 /\ p.endpoints[index + 1].ok

\* _is_default_device: both queries sit in one try whose handler returns False
is_default_device(p, device_index) ==
    IF ~Reported(p, p.default_input) THEN FALSE
    ELSE IF p.default_input = device_index THEN TRUE
    ELSE IF ~Reported(p, p.default_output) THEN FALSE
    ELSE p.default_output = device_index

\* list_all_devices, lines 226-255: the body of the loop raises for endpoint i
Skipped(p, i) ==
    \/ ~p.endpoints[i + 1].ok
    \/ p.endpoints[i + 1].hostApi \notin 1..Len(HostApiNames)
    \/ is_loopback_device(p.endpoints[i + 1]) = "TypeError"

\* list_all_devices, lines 232-241: the AudioDevice built for endpoint i
DeviceAt(p, i) ==
    [index |-> i,
     name |-> p.endpoints[i + 1].name,
     max_input_channels |-> p.endpoints[i + 1].maxInputChannels,
     max_output_channels |-> p.endpoints[i + 1].maxOutputChannels,
     host_api |-> HostApiNames[p.endpoints[i + 1].hostApi],
     is_loopback |-> is_loopback_device(p.endpoints[i + 1]) = "True",
     is_default |-> is_default_device(p, i)]

\* list_all_devices, lines 225-255: for i in range(device_count), from i on
RECURSIVE EnumerateFrom(_, _)
EnumerateFrom(p, i) ==
    IF i >= Len(p.endpoints) THEN <<>>
    ELSE (IF Skipped(p, i) THEN <<>> ELSE <<DeviceAt(p, i)>>) \o
         EnumerateFrom(p, i + 1)

\* a cache test that does not look at refresh_cache
CacheHitIgnoringRefresh(refresh_cache) == devices_cache.present

\* list_all_devices, line 213:
\* self._devices_cache is not None and not refresh_cache
CacheHit(refresh_cache) == devices_cache.present /\ ~refresh_cache

\* a listing that drops the cache when it fails
CacheDroppedAfterFailure(cache) == NoCache

\* list_all_devices, lines 257 and 262-264: the cache is assigned after the
\* loop only, so a failed listing leaves it as it was
CacheAfterFailure(cache) == cache

\* list_all_devices: what the call returns or raises, what it leaves in the
\* cache, and whether it queried the platform
Listing(refresh_cache) ==
    IF CacheHit(refresh_cache)
    THEN [error |-> "none", queried |-> FALSE, list |-> devices_cache.list,
          cache |-> devices_cache]
    ELSE IF ~platform.up
    THEN [error |-> "AudioDeviceError", queried |-> TRUE, list |-> <<>>,
          cache |-> CacheAfterFailure(devices_cache)]
    ELSE LET devices == EnumerateFrom(platform, 0)
         IN  [error |-> "none", queried |-> TRUE, list |-> devices,
              cache |-> [present |-> TRUE, list |-> devices]]

list_all_devices ==
    /\ \E refresh_cache \in BOOLEAN :
       \E out \in {Listing(refresh_cache)} :
         /\ dm_result' = [op |-> "list", refresh |-> refresh_cache,
                          error |-> out.error, queried |-> out.queried,
                          list |-> out.list, device |-> NoDevice,
                          capable |-> <<>>, msg |-> "none",
                          cause |-> "none"]
         /\ devices_cache' = out.cache
         /\ dm_listed' = IF out.error = "none"
                         THEN [done |-> TRUE, list |-> out.list]
                         ELSE dm_listed
    /\ UNCHANGED <<host, platform>>
    /\ UNCHANGED nondevvars

\* a selection that takes the first candidate whatever the defaults
FirstOnly(devices) == Head(devices)

\* next((d for d in devices if d.is_default), None), else devices[0]
FirstDefaultOrFirst(devices) ==
    IF SelectSeq(devices, LAMBDA d : d.is_default) # <<>>
    THEN Head(SelectSeq(devices, LAMBDA d : d.is_default))
    ELSE Head(devices)

\* get_default_speakers, lines 160-194: the selection over the listed devices
SelectSpeakers(devices) ==
    IF SelectSeq(devices, LAMBDA d : d.is_loopback) # <<>>
    THEN FirstDefaultOrFirst(SelectSeq(devices, LAMBDA d : d.is_loopback))
    ELSE IF SelectSeq(devices,
                      LAMBDA d : Lowered[d.host_api] = windows_wasapi /\
                                 d.max_output_channels > 0) # <<>>
    THEN FirstDefaultOrFirst(
             SelectSeq(devices,
                       LAMBDA d : Lowered[d.host_api] = windows_wasapi /\
                                  d.max_output_channels > 0))
    ELSE NoDevice

\* get_default_speakers: list (from the cache when there is one), select; a
\* failed listing is raised as AudioDeviceError
get_default_speakers ==
    /\ \E out \in {Listing(FALSE)} :
         /\ dm_result' = [op |-> "speakers", refresh |-> FALSE,
                          error |-> out.error, queried |-> out.queried,
                          list |-> out.list,
                          device |-> IF out.error = "none"
                                     THEN SelectSpeakers(out.list)
                                     ELSE NoDevice,
                          capable |-> <<>>, msg |-> "none",
                          cause |-> "none"]
         /\ devices_cache' = out.cache
         /\ dm_listed' = IF out.error = "none"
                         THEN [done |-> TRUE, list |-> out.list]
                         ELSE dm_listed
    /\ UNCHANGED <<host, platform>>
    /\ UNCHANGED nondevvars

\* get_recording_capable_devices, lines 364-371: sort_key
sort_key(device) ==
    0 - ((IF Lowered[device.host_api] = windows_wasapi THEN 30 ELSE 0) +
         (IF device.is_loopback THEN 20 ELSE 0) +
         (IF device.is_default THEN 10 ELSE 0))

\* a sort step that puts a device before the devices of equal key
InsertBeforeEqual(key, device) == key >= sort_key(device)

\* sorted() is stable: a device goes behind the devices of smaller or equal
\* key that came before it
InsertBefore(key, device) == key > sort_key(device)

\* one step of sorted(): device goes into an ordered list
RECURSIVE Insert(_, _)
Insert(device, ordered) ==
    IF ordered = <<>> THEN <<device>>
    ELSE IF InsertBefore(sort_key(Head(ordered)), device)
    THEN <<device>> \o ordered
    ELSE <<Head(ordered)>> \o Insert(device, Tail(ordered))

\* sorted(recording_devices, key=sort_key)
RECURSIVE sorted(_)
sorted(devices) ==
    IF devices = <<>> THEN <<>>
    ELSE Insert(devices[Len(devices)],
                sorted(SubSeq(devices, 1, Len(devices) - 1)))

\* get_recording_capable_devices, lines 361-373, over the listed devices
RecordingCapable(devices) ==
    sorted(SelectSeq(devices, LAMBDA d : d.max_input_channels > 0))

\* get_recording_capable_devices: list (from the cache when there is one),
\* filter, sort; a failed listing raises out of the call
get_recording_capable_devices ==
    /\ \E out \in {Listing(FALSE)} :
         /\ dm_result' = [op |-> "capable", refresh |-> FALSE,
                          error |-> out.error, queried |-> out.queried,
                          list |-> out.list, device |-> NoDevice,
                          capable |-> IF out.error = "none"
                                      THEN RecordingCapable(out.list)
                                      ELSE <<>>,
                          msg |-> "none", cause |-> "none"]
         /\ devices_cache' = out.cache
         /\ dm_listed' = IF out.error = "none"
                         THEN [done |-> TRUE, list |-> out.list]
                         ELSE dm_listed
    /\ UNCHANGED <<host, platform>>
    /\ UNCHANGED nondevvars

\* a channel count that is not capped
ChannelsUncapped(max_input_channels) ==
    IF max_input_channels > 0 THEN max_input_channels ELSE 1

\* set_device_auto, line 246:
\* min(device.max_input_channels, 2) if device.max_input_channels > 0 else 1
Channels(max_input_channels) ==
    IF max_input_channels > 0
    THEN (IF max_input_channels < 2 THEN max_input_channels ELSE 2)
    ELSE 1

\* set_device_auto, lines 230-243: the first recording-capable device, or
\* the first of them with input channels when it has none; NoDevice where
\* the function returns False
AutoDevice(recording_devices) ==
    IF recording_devices = <<>> THEN NoDevice
    ELSE IF Head(recording_devices).max_input_channels # 0
    THEN Head(recording_devices)
    ELSE IF SelectSeq(recording_devices,
                      LAMBDA d : d.max_input_channels > 0) # <<>>
    THEN Head(SelectSeq(recording_devices,
                        LAMBDA d : d.max_input_channels > 0))
    ELSE NoDevice

\* set_device_auto on machine h and platform p, for a recorder configured
\* as cfg: what it returns and the configuration it leaves. A DeviceManager
\* of its own is constructed, lists with an empty cache and is closed; any
\* exception inside is caught and makes the function return False
SetDeviceAuto(h, p, cfg) ==
    IF initialize_audio_system(h).error # "none" \/ ~p.up
    THEN [returns |-> FALSE, config |-> cfg]
    ELSE LET device == AutoDevice(RecordingCapable(EnumerateFrom(p, 0)))
         IN  IF device = NoDevice
             THEN [returns |-> FALSE, config |-> cfg]
             ELSE [returns |-> TRUE,
                   config |-> DefaultConfig(
                                  device,
                                  Channels(device.max_input_channels))]

\* DeviceManager(): __init__ on the machine
DeviceManager_init ==
    /\ dm_result.op = "none"
    /\ dm_result' = [NoDmResult EXCEPT
                       !.op = "init",
                       !.error = initialize_audio_system(host).error,
                       !.msg = initialize_audio_system(host).msg,
                       !.cause = initialize_audio_system(host).cause]
    /\ UNCHANGED <<host, platform, devices_cache, dm_listed>>
    /\ UNCHANGED nondevvars

\* the subsystem goes away or comes back
subsystem_changes ==
    /\ platform' = [platform EXCEPT !.up = ~@]
    /\ UNCHANGED <<host, devices_cache, dm_result, dm_listed>>
    /\ UNCHANGED nondevvars

\* the last endpoint is unplugged; a default that named it is no longer
\* reported
endpoint_removed ==
    /\ platform.endpoints # <<>>
    /\ platform' =
         [platform EXCEPT
            !.endpoints = SubSeq(@, 1, Len(@) - 1),
            !.default_input =
                IF @ = Len(platform.endpoints) - 1 THEN -1 ELSE @,
            !.default_output =
                IF @ = Len(platform.endpoints) - 1 THEN -1 ELSE @]
    /\ UNCHANGED <<host, devices_cache, dm_result, dm_listed>>
    /\ UNCHANGED nondevvars

\* the user picks another default output device
default_output_moves ==
    /\ \E index \in -1..(Len(platform.endpoints) - 1) :
         /\ index # platform.default_output
         /\ platform' = [platform EXCEPT !.default_output = index]
    /\ UNCHANGED <<host, devices_cache, dm_result, dm_listed>>
    /\ UNCHANGED nondevvars

\* ------------------------------------------------- the output file name
\* file names and format values are sequences of characters here
DotWav == <<".", "w", "a", "v">>

DotM4a == <<".", "m", "4", "a">>

DotMp4 == <<".", "m", "p", "4">>

\* str.endswith
EndsWith(s, suffix) ==
    /\ Len(suffix) <= Len(s)
    /\ SubSeq(s, Len(s) - Len(suffix) + 1, Len(s)) = suffix

\* start_recording, lines 305-309: the first of '.wav', '.m4a', '.mp4' that
\* the name ends with is cut off
StripOld(filename) ==
    IF EndsWith(filename, DotWav)
    THEN SubSeq(filename, 1, Len(filename) - Len(DotWav))
    ELSE IF EndsWith(filename, DotM4a)
    THEN SubSeq(filename, 1, Len(filename) - Len(DotM4a))
    ELSE IF EndsWith(filename, DotMp4)
    THEN SubSeq(filename, 1, Len(filename) - Len(DotMp4))
    ELSE filename

\* start_recording, lines 288-313: the file name of the recording, for the
\* filename argument (<<>> stands for None and for ''), the configured
\* audio_format and the local time as strftime prints it
OutputName(filename, audio_format, timestamp) ==
    LET given == IF filename = <<>>
                 THEN <<"m", "e", "e", "t", "i", "n", "g", "_">> \o timestamp
                 ELSE filename
        expected_ext == <<".">> \o lower(audio_format)
    IN  IF EndsWith(StripOld(given), expected_ext)
        THEN StripOld(given)
        ELSE StripOld(given) \o expected_ext

\* _save_recording, lines 526-534: the encoder that writes the file
Container(audio_format) ==
    IF audio_format # <<>> /\ lower(audio_format) = <<"m", "4", "a">>
    THEN "m4a" ELSE "wav"

\* the extensions a given file name arrives with
GivenExtensions == {DotWav, DotM4a, DotMp4, <<".", "W", "A", "V">>,
                    <<".", "t", "x", "t">>}

\* the file names start_recording is given: none, or a stem with up to
\* MaxExtensions extensions
Filenames ==
    {<<>>} \cup
    {<<"a">> \o e : e \in {<<>>} \cup GivenExtensions} \cup
    {<<"a">> \o e \o f : e \in GivenExtensions, f \in GivenExtensions}

\* the values RecordingConfig.audio_format is given; main.py assigns it the
\* lower-cased command line argument without a test
Formats == {<<"w", "a", "v">>, <<"m", "4", "a">>, <<"W", "A", "V">>,
            <<"M", "4", "A">>, <<"m", "p", "3">>}

\* the arguments of one start_recording; the clock reads 1
NameInputs == [filename : Filenames, audio_format : Formats,
               timestamp : {<<"1">>}]

\* start_recording names the file, stop_recording writes it
name_and_write ==
    /\ input \in NameInputs
    /\ output = <<>>
    /\ output' = [path |-> OutputName(input.filename, input.audio_format,
                                      input.timestamp),
                  written |-> Container(input.audio_format)]
    /\ UNCHANGED input
    /\ UNCHANGED <<recvars, devvars, quickvars>>

\* quick_record, lines 44-50: the file name quick_record reports, for its
\* filename argument (<<>> stands for None and for ''), its audio_format
\* argument and the local time
ReportedName(filename, audio_format, timestamp) ==
    IF filename = <<>>
    THEN <<"r", "e", "c", "o", "r", "d", "i", "n", "g", "_">> \o timestamp \o
         <<".">> \o
         (IF lower(audio_format) \in {<<"w", "a", "v">>, <<"m", "4", "a">>}
          THEN lower(audio_format) ELSE <<"w", "a", "v">>)
    ELSE filename

\* quick_record names the file in its result and its statuses (lines 44-66,
\* 184-187); record_worker assigns audio_format.lower() to the configuration
\* and passes the name to start_recording, which names the file written
\* (lines 95, 107)
quick_record_names ==
    /\ input \in NameInputs
    /\ output = <<>>
    /\ output' =
         [reported |-> ReportedName(input.filename, input.audio_format,
                                    input.timestamp),
          written |-> OutputName(ReportedName(input.filename,
                                              input.audio_format,
                                              input.timestamp),
                                 lower(input.audio_format),
                                 input.timestamp)]
    /\ UNCHANGED input
    /\ UNCHANGED <<recvars, devvars, quickvars>>

\* ------------------------------------------------- quality presets
\* RecordingQuality.QUICK
QUICK == [sample_rate |-> 16000, channels |-> 1, chunk_size |-> 2048,
          name |-> "Quick (16kHz Mono)"]

\* RecordingQuality.STANDARD
STANDARD == [sample_rate |-> 44100, channels |-> 2, chunk_size |-> 4096,
             name |-> "Standard (44.1kHz Stereo)"]

\* RecordingQuality.PROFESSIONAL
PROFESSIONAL == [sample_rate |-> 48000, channels |-> 2, chunk_size |-> 4096,
                 name |-> "Professional (48kHz Stereo)"]

\* RecordingQuality.HIGH
HIGH == [sample_rate |-> 96000, channels |-> 2, chunk_size |-> 8192,
         name |-> "High (96kHz Stereo)"]

\* the keys of get_all()
quick == <<"q", "u", "i", "c", "k">>

standard == <<"s", "t", "a", "n", "d", "a", "r", "d">>

professional == <<"p", "r", "o", "f", "e", "s", "s", "i", "o", "n", "a", "l">>

high == <<"h", "i", "g", "h">>

\* RecordingQuality.get_all
get_all == (quick :> QUICK) @@ (standard :> STANDARD) @@
           (professional :> PROFESSIONAL) @@ (high :> HIGH)

\* a lookup key taken as it is given
KeyAsGiven(quality_name) == quality_name

\* RecordingQuality.get, line 108: quality_name.lower()
Key(quality_name) == lower(quality_name)

\* RecordingQuality.get: qualities.get(key, cls.PROFESSIONAL)
get(quality_name) ==
    IF Key(quality_name) \in DOMAIN get_all
    THEN get_all[Key(quality_name)]
    ELSE PROFESSIONAL

\* str.upper(), for one character
UpperChar(c) == IF \E i \in 1..26 : LowerLetters[i] = c
                THEN UpperLetters[CHOOSE i \in 1..26 : LowerLetters[i] = c]
                ELSE c

\* the spellings of a lower-case name in upper and lower case letters
CaseVariants(s) ==
    {v \in [1..Len(s) -> UNION {{s[i], UpperChar(s[i])} : i \in 1..Len(s)}] :
       \A i \in 1..Len(s) : v[i] \in {s[i], UpperChar(s[i])}}

\* the names get() is called with: the keys in every letter case (the two
\* long ones in three), and names that are no key
QualityNames ==
    CaseVariants(quick) \cup CaseVariants(high) \cup
    {standard, <<"S">> \o Tail(standard),
     [i \in 1..Len(standard) |-> UpperChar(standard[i])],
     professional, <<"P">> \o Tail(professional),
     [i \in 1..Len(professional) |-> UpperChar(professional[i])]} \cup
    {<<>>, <<"l", "o", "w">>, <<"h", "i", "g", "h", " ">>,
     <<"p", "r", "o">>, <<"Q", "U", "I", "C", "K", "1">>}

\* one more RecordingQuality.get(quality_name)
RecordingQuality_get ==
    /\ input \in [quality_name : QualityNames]
    /\ Len(output) < MaxLookups
    /\ output' = Append(output, get(input.quality_name))
    /\ UNCHANGED input
    /\ UNCHANGED <<recvars, devvars, quickvars>>

\* ---------------------------------------------------------------- Init
\* AudioRecorder.__init__
RecInit ==
    /\ config \in Configs
    /\ audio = "live"
    /\ stream = 0
    /\ recording = FALSE
    /\ thread = 0
    /\ frames = <<>>
    /\ stats = NoStats
    /\ frames_captured = 0
    /\ streams = [i \in Ids |-> NoStream]
    /\ workers = [i \in Ids |-> NoWorker]
    /\ file = NoFile
    /\ now = 0
    /\ nchunks = 0
    /\ cpc = "idle"
    /\ inClose = FALSE
    /\ result = NoResult
    /\ calls = 0
    /\ hist = NoHist
    /\ has_audio_detected = FALSE
    /\ returned = NoReturn

\* ------------------------------------------------- controlling thread
\* AudioRecorder._cleanup_recording; stop_stream() raises on a stream that is
\* not running, so close() is reached for an active stream only
Cleanup ==
    /\ recording' = FALSE
    /\ streams' = IF stream # 0 /\ streams[stream].state = "active"
                  THEN [streams EXCEPT ![stream].state = "closed",
                                       ![stream].closes = Inc2(@)]
                  ELSE streams
    /\ stream' = 0
    /\ frames' = <<>>
    /\ stats' = NoStats
    /\ returned' = Detach(returned)

\* a start guard that also takes leftover statistics for a recording in progress
StartRejectedStale == recording \/ stats.present

\* start_recording, the guard: if self._recording: raise
StartRejected == recording

\* a start that goes on without a configuration and fails at line 302, on
\* self._config.audio_format
AutoConfigIgnored == Raised("start", "AttributeError",
                            "NoneType has no attribute audio_format", "none")

\* start_recording, lines 285-286: if not self.set_device_auto(): raise
AutoConfigFailed == Raised("start", "AudioRecorderError",
                           "Could not configure audio device", "none")

\* start_recording, lines 280-325: guard, automatic configuration, the
\* statistics record and the frame buffer of the new recording
StartRecording ==
    /\ cpc = "idle"
    /\ calls < MaxCalls
    /\ calls' = calls + 1
    /\ recording \/ NextId <= MaxStarts
    /\ UNCHANGED has_audio_detected
    /\ IF StartRejected
       THEN /\ result' = Raised("start", "RecordingInProgressError",
                                "Recording is already in progress", "none")
            /\ UNCHANGED <<config, audio, stream, recording, thread, frames,
                           stats, frames_captured, streams, workers, file,
                           now, nchunks, cpc, inClose, hist, returned>>
       ELSE \E auto \in {IF config.present
                           THEN [returns |-> TRUE, config |-> config]
                           ELSE SetDeviceAuto(host, platform, config)} :
            /\ IF ~auto.returns
               THEN /\ result' = AutoConfigFailed
                    /\ hist' = [hist EXCEPT !.used = TRUE]
                    /\ UNCHANGED <<config, audio, stream, recording, thread,
                                   frames, stats, frames_captured, streams,
                                   workers, file, now, nchunks, cpc, inClose,
                                   returned>>
               ELSE /\ config' = auto.config
                    /\ stats' = NewStats(now)
                    /\ returned' = Detach(returned)
                    /\ frames' = <<>>
                    /\ cpc' = "start_open"
                    /\ result' = Pending("start")
                    /\ hist' = [hist EXCEPT !.savedOk = FALSE,
                                            !.saveFailed = FALSE,
                                            !.atStop = 0,
                                            !.selfEnded = FALSE]
                    /\ UNCHANGED <<audio, stream, recording, thread,
                                   frames_captured, streams, workers, file,
                                   now, nchunks, inClose>>

\* a call that returned False
ReturnedFalse(op) == [op |-> op, error |-> "none", msg |-> "False",
                      cause |-> "none"]

\* set_device_auto, called by the controlling thread
set_device_auto ==
    /\ cpc = "idle"
    /\ \E auto \in {SetDeviceAuto(host, platform, config)} :
         /\ config' = auto.config
         /\ result' = IF auto.returns THEN Ok("set_device_auto")
                                      ELSE ReturnedFalse("set_device_auto")
    /\ UNCHANGED <<audio, stream, recording, thread, frames, stats,
                   frames_captured, streams, workers, file, now, nchunks,
                   cpc, inClose, calls, hist, has_audio_detected, returned>>
    /\ UNCHANGED envvars

\* start_recording, called by a controller that does nothing else
start_recording == StartRecording /\ UNCHANGED envvars

\* a start failure raised without "from e"
StartErrorNoCause(cause) == Raised("start", "AudioRecorderError",
                                   "Failed to start recording", "none")

\* start_recording, line 362: raise AudioRecorderError(...) from e
StartError(cause) == Raised("start", "AudioRecorderError",
                            "Failed to start recording", cause)

\* start_recording, lines 327-362: open the stream, set the flag, start the
\* thread; any failure goes through _cleanup_recording
start_open ==
    /\ cpc = "start_open"
    /\ cpc' = "idle"
    /\ \E opened \in BOOLEAN :
         /\ (audio = "None" => ~opened)
         /\ IF opened
            THEN /\ stream' = NextId
                 /\ streams' = [streams EXCEPT ![NextId].state = "active"]
                 /\ recording' = TRUE
                 /\ thread' = NextId
                 /\ workers' = [workers EXCEPT ![NextId].pc = "start"]
                 /\ result' = Ok("start")
                 /\ hist' = [hist EXCEPT !.sessionOpen = TRUE, !.saves = 0,
                                         !.savedOk = FALSE]
                 /\ UNCHANGED <<frames, stats, returned>>
            ELSE /\ Cleanup
                 /\ result' = StartError(IF audio = "None"
                                          THEN "AttributeError"
                                          ELSE "OSError")
                 /\ hist' = [hist EXCEPT !.used = TRUE]
                 /\ UNCHANGED <<thread, workers>>
    /\ UNCHANGED <<config, audio, frames_captured, file, now, nchunks,
                   inClose, calls>>
    /\ UNCHANGED has_audio_detected
    /\ UNCHANGED envvars

\* b''.join(self._frames): the chunks in append order
RECURSIVE Join(_)
Join(fs) == IF fs = <<>> THEN <<>> ELSE <<Head(fs)>> \o Join(Tail(fs))

\* frames held by a byte string made of these chunks (one read returns
\* chunk_size frames)
RECURSIVE FrameCount(_)
FrameCount(fs) == IF fs = <<>> THEN 0 ELSE chunk_size + FrameCount(Tail(fs))

\* what a function raises: the exception class, the head of its message,
\* the class of its __cause__; error = "none" where it returns
Returns == [error |-> "none", msg |-> "none", cause |-> "none"]

\* what saving meets: PYDUB_AVAILABLE, how AudioSegment(...).export ends
\* (FileNotFoundError: no ffmpeg to run), how wave.open / writeframes end
SaveEnvs == [pydub_available : BOOLEAN,
             export : {"ok", "ImportError", "FileNotFoundError", "OSError"},
             write : {"ok", "OSError"}]

\* _save_as_wav, lines 553-557
save_as_wav(e) ==
    IF e.write # "ok"
    THEN [error |-> e.write, msg |-> "none", cause |-> "none"]
    ELSE Returns

\* _save_as_m4a, lines 568-609
save_as_m4a(e) ==
    IF ~e.pydub_available
    THEN [error |-> "AudioRecorderError",
          msg |-> "pydub not available for M4A encoding", cause |-> "none"]
    ELSE IF e.export = "ImportError"
    THEN [error |-> "AudioRecorderError", msg |-> "Failed to encode M4A",
          cause |-> "none"]
    ELSE IF e.export # "ok"
    THEN [error |-> "AudioRecorderError", msg |-> "Failed to save M4A file",
          cause |-> e.export]
    ELSE Returns

\* _save_recording, lines 525-544, with frames to save: every exception of
\* the encoder is raised again as AudioRecorderError('Failed to write file')
save_recording(fmt, e) ==
    LET inner == IF fmt = "m4a" THEN save_as_m4a(e) ELSE save_as_wav(e)
    IN  IF inner.error # "none"
        THEN [error |-> "AudioRecorderError", msg |-> "Failed to write file",
              cause |-> inner.error]
        ELSE Returns

\* stop_recording, lines 504-510: every exception of _save_recording is
\* raised again as AudioRecorderError('Failed to save file')
StopSave(saved) ==
    IF saved.error # "none"
    THEN Raised("stop", "AudioRecorderError", "Failed to save file",
                saved.error)
    ELSE Ok("stop")

\* the ways _save_recording can end
SaveOutcomes(fmt) == {save_recording(fmt, e) : e \in SaveEnvs}

\* _save_recording, line 523: raised before the try, with no frames
NoAudioData == [error |-> "AudioRecorderError",
                msg |-> "No audio data to save", cause |-> "none"]

\* a stop_recording that reaches its save: the configured format, whether
\* frames were captured, what saving meets
SaveInputs == [audio_format : {"wav", "m4a", "mp3"}, has_frames : BOOLEAN,
               env : SaveEnvs]

\* the save of stop_recording, lines 504-512
save_alone ==
    /\ input \in SaveInputs
    /\ output = <<>>
    /\ output' = StopSave(IF input.has_frames
                          THEN save_recording(input.audio_format, input.env)
                          ELSE NoAudioData)
    /\ UNCHANGED input
    /\ UNCHANGED <<recvars, devvars, quickvars>>

\* a stop guard whose second negation was lost
NothingToStopNegationSlip == frames = <<>> /\ stats.present

\* a stop guard that looks at the recording flag
NothingToStopByFlag == ~recording

\* stop_recording, the guard: if not self._frames and not self._stats: raise
NothingToStop == frames = <<>> /\ ~stats.present

\* workers whose loop a stop_recording() call cancels
Cancel(ws) == [w \in Ids |-> IF ws[w].pc \notin {"none", "done"}
                             THEN [ws[w] EXCEPT !.cancelled = TRUE,
                                                !.post = 0]
                             ELSE ws[w]]

\* stop_recording, lines 483-489: the guard, then self._recording = False
StopBegin(fromClose) ==
    IF NothingToStop
    THEN /\ result' = Raised("stop", "AudioRecorderError",
                             "No recording to save", "none")
         /\ cpc' = IF fromClose THEN "close_terminate" ELSE "idle"
         /\ inClose' = fromClose
         /\ UNCHANGED <<config, audio, stream, recording, thread, frames,
                        stats, frames_captured, streams, workers, file, now,
                        nchunks, hist>>
    ELSE /\ recording' = FALSE
         /\ cpc' = "stop_join"
         /\ inClose' = fromClose
         /\ workers' = Cancel(workers)
         /\ result' = Pending(IF fromClose THEN "close" ELSE "stop")
         /\ hist' = [hist EXCEPT !.sessionOpen = FALSE,
                                 !.selfEnded = /\ ~recording
                                               /\ hist.sessionOpen
                                               /\ thread # 0
                                               /\ workers[thread].pc = "done"]
         /\ UNCHANGED <<config, audio, stream, thread, frames, stats,
                        frames_captured, streams, file, now, nchunks>>

StopRecording ==
    /\ cpc = "idle"
    /\ calls < MaxCalls
    /\ calls' = calls + 1
    /\ StopBegin(FALSE)
    /\ UNCHANGED <<has_audio_detected, returned>>

\* stop_recording, called by a controller that does nothing else
stop_recording == StopRecording /\ UNCHANGED envvars

\* the statistics stop_recording() finalizes at time t
Finalized(st, t) == [st EXCEPT !.ended = TRUE, !.end_time = t,
                               !.duration = t - st.start_time]

\* stop_recording, lines 492-495: join(timeout=5.0) returns when the thread
\* has ended, or after five seconds with the thread still blocked in read()
JoinReturns == thread = 0 \/ workers[thread].pc \in {"done", "reading"}

\* stop_recording, lines 491-512: the bounded join, self._stream = None, the
\* final statistics, _save_recording
stop_finish ==
    /\ cpc = "stop_join"
    /\ JoinReturns
    /\ cpc' = IF inClose THEN "close_terminate" ELSE "idle"
    /\ stream' = 0
    /\ IF ~stats.present
       THEN /\ result' = Raised("stop", "AttributeError",
                                "NoneType has no attribute end_time",
                                "none")
            /\ hist' = [hist EXCEPT !.used = TRUE]
            /\ UNCHANGED <<stats, file>>
       ELSE IF frames = <<>>
       THEN /\ stats' = Finalized(stats, now)
            /\ result' = Raised("stop", "AudioRecorderError",
                                "Failed to save file",
                                "AudioRecorderError")
            /\ hist' = [hist EXCEPT !.used = TRUE, !.savedOk = FALSE]
            /\ UNCHANGED file
       ELSE \E out \in SaveOutcomes(config.audio_format) :
            IF out.error = "none"
            THEN /\ file' = [exists |-> TRUE, content |-> Join(frames),
                             nframes |-> FrameCount(Join(frames)),
                             writes |-> Inc2(file.writes)]
                 /\ stats' = [Finalized(stats, now) EXCEPT
                                !.file_size = FrameCount(Join(frames))]
                 /\ result' = Ok("stop")
                 /\ hist' = [hist EXCEPT !.used = TRUE,
                                         !.saves = Inc2(@),
                                         !.savedOk = TRUE,
                                         !.saveFailed = FALSE,
                                         !.atStop = Len(frames)]
            ELSE /\ stats' = Finalized(stats, now)
                 /\ result' = StopSave(out)
                 /\ hist' = [hist EXCEPT !.used = TRUE,
                                         !.saves = Inc2(@),
                                         !.savedOk = FALSE,
                                         !.saveFailed = TRUE,
                                         !.atStop = Len(frames)]
                 /\ UNCHANGED file
    /\ UNCHANGED <<config, audio, recording, thread, frames, frames_captured,
                   streams, workers, now, nchunks, inClose, calls>>
    /\ UNCHANGED <<has_audio_detected, returned>>
    /\ UNCHANGED envvars

\* close, lines 710-714: stop a recording in progress, swallowing its errors
Close ==
    /\ cpc = "idle"
    /\ calls < MaxCalls
    /\ calls' = calls + 1
    /\ IF recording
       THEN StopBegin(TRUE)
       ELSE /\ cpc' = "close_terminate"
            /\ inClose' = TRUE
            /\ result' = Pending("close")
            /\ UNCHANGED <<config, audio, stream, recording, thread, frames,
                           stats, frames_captured, streams, workers, file,
                           now, nchunks, hist>>
    /\ UNCHANGED <<has_audio_detected, returned>>

\* close, called by a controller that does nothing else
close == Close /\ UNCHANGED envvars

\* a duration refresh that does not look at self._recording
StillRecordingAlways == TRUE

\* get_current_stats, line 682: if self._recording
StillRecording == recording

\* get_current_stats: None without statistics; else the duration is
\* recomputed while recording, and self._stats itself is returned
get_current_stats ==
    /\ cpc = "idle"
    /\ calls < MaxCalls
    /\ calls' = calls + 1
    /\ result' = Ok("stats")
    /\ IF ~stats.present
       THEN /\ returned' = [NoReturn EXCEPT !.kind = "None"]
            /\ UNCHANGED stats
       ELSE /\ stats' = IF StillRecording
                        THEN [stats EXCEPT !.duration = now - stats.start_time]
                        ELSE stats
            /\ returned' = [kind |-> "stats", at |-> stats', live |-> TRUE,
                            last |-> NoStats]
    /\ UNCHANGED <<config, audio, stream, recording, thread, frames,
                   frames_captured, streams, workers, file, now, nchunks,
                   cpc, inClose, hist, has_audio_detected>>
    /\ UNCHANGED envvars

\* a release that does not look at self._audio
HasAudioUnguarded == TRUE

\* close, the guard of the release: if self._audio
HasAudio == audio = "live"

\* close, lines 716-723: terminate the PyAudio handle and drop it
close_terminate ==
    /\ cpc = "close_terminate"
    /\ cpc' = "idle"
    /\ inClose' = FALSE
    /\ audio' = "None"
    /\ hist' = [hist EXCEPT !.terminated = IF HasAudio THEN Inc2(@) ELSE @,
                            !.closes = Inc2(@)]
    /\ result' = Ok("close")
    /\ UNCHANGED <<config, stream, recording, thread, frames, stats,
                   frames_captured, streams, workers, file, now, nchunks,
                   calls>>
    /\ UNCHANGED <<has_audio_detected, returned>>
    /\ UNCHANGED envvars

\* ------------------------------------------------- the capture thread
\* _recording_worker, line 396: start_time = time.time()
worker_start(w) ==
    /\ workers[w].pc = "start"
    /\ workers' = [workers EXCEPT ![w].pc = "loop", ![w].start_time = now]
    /\ UNCHANGED <<config, audio, stream, recording, thread, frames, stats,
                   frames_captured, streams, file, now, nchunks, cpc,
                   inClose, result, calls, hist>>
    /\ UNCHANGED <<has_audio_detected, returned>>
    /\ UNCHANGED envvars

\* a duration exit condition with > for >=
DurationReachedStrict(duration) ==
    /\ config.maxSet
    /\ config.max_duration # 0
    /\ duration > config.max_duration

\* _recording_worker, lines 403-404: the duration exit condition
\* (self._config.max_duration and duration >= self._config.max_duration)
DurationReached(duration) ==
    /\ config.maxSet
    /\ config.max_duration # 0
    /\ duration >= config.max_duration

\* one worker leaving its loop for the finally block
Leave(w, why) ==
    [workers EXCEPT ![w].pc = "finally",
                    ![w].retry = FALSE,
                    ![w].lost = why \in {"stopped", "device"},
                    ![w].early = why = "duration" /\ config.maxSet /\
                                 now - workers[w].start_time <
                                     config.max_duration]

\* stream.is_stopped() on a stream that was running when last looked at:
\* the platform may have stopped it since (the stream reports itself stopped)
Observed(state) == IF state = "active" THEN {"active", "stopped"} ELSE {state}

\* _recording_worker, lines 398-417: the loop condition, the duration check,
\* the stream check, and the call of read() on the current stream object.
\* is_stopped() on a closed stream raises "Stream closed", which the handler
\* of line 450 classifies as fatal.
worker_loop(w) ==
    /\ workers[w].pc = "loop"
    /\ IF ~recording
       THEN /\ workers' = Leave(w, "flag")
            /\ UNCHANGED <<recording, streams>>
       ELSE IF DurationReached(now - workers[w].start_time)
       THEN /\ workers' = Leave(w, "duration")
            /\ recording' = FALSE
            /\ UNCHANGED streams
       ELSE IF stream = 0
       THEN /\ workers' = Leave(w, "stream")
            /\ UNCHANGED <<recording, streams>>
       ELSE \E seen \in Observed(streams[stream].state) :
            /\ streams' = [streams EXCEPT ![stream].state = seen]
            /\ workers' = IF seen = "active"
                          THEN [workers EXCEPT
                                  ![w].pc = "reading", ![w].ref = stream,
                                  ![w].retry = FALSE,
                                  ![w].resumed = @ \/ workers[w].cancelled]
                          ELSE Leave(w, seen)
            /\ UNCHANGED recording
    /\ UNCHANGED <<config, audio, stream, thread, frames, stats,
                   frames_captured, file, now, nchunks, cpc, inClose, result,
                   calls, hist>>
    /\ UNCHANGED <<has_audio_detected, returned>>
    /\ UNCHANGED envvars

\* the buffers a read returns, as bytes (two little-endian Int16 samples
\* stand for the chunk_size frames of a buffer): 100 and -100, whose RMS is
\* exactly the threshold, and 0 and 142, whose RMS is above it
Buffers == {<<100, 0, 156, 255>>, <<0, 0, 142, 0>>}

\* struct.unpack('<h'): one signed 16-bit sample from its two bytes
Int16(lo, hi) == IF lo + 256 * hi >= 32768 THEN lo + 256 * hi - 65536
                                           ELSE lo + 256 * hi

\* struct.unpack(f'<{len(data)//2}h', data)
RECURSIVE Unpack(_)
Unpack(data) == IF Len(data) < 2 THEN <<>>
                ELSE <<Int16(data[1], data[2])>> \o
                     Unpack(SubSeq(data, 3, Len(data)))

\* sum(s ** 2 for s in samples)
RECURSIVE SumOfSquares(_)
SumOfSquares(samples) == IF samples = <<>> THEN 0
                         ELSE Head(samples) * Head(samples) +
                              SumOfSquares(Tail(samples))

\* _calculate_audio_level(data) > threshold: the RMS
\* (sum_of_squares / len(samples)) ** 0.5 is above the threshold exactly when
\* the sum of squares is above threshold squared times the sample count; a
\* buffer that does not unpack, or holds no sample, has level 0.0
AudioLevelAbove(data, threshold) ==
    /\ Len(data) % 2 = 0
    /\ Unpack(data) # <<>>
    /\ SumOfSquares(Unpack(data)) >
         threshold * threshold * Len(Unpack(data))

\* the texts of the exceptions a read raises, as characters
ErrorText ==
    ("device unavailable" :>
        <<"d", "e", "v", "i", "c", "e", " ", "u", "n", "a", "v", "a", "i",
          "l", "a", "b", "l", "e">>) @@
    ("Device unavailable" :>
        <<"D", "e", "v", "i", "c", "e", " ", "u", "n", "a", "v", "a", "i",
          "l", "a", "b", "l", "e">>) @@
    ("unanticipated host error" :>
        <<"u", "n", "a", "n", "t", "i", "c", "i", "p", "a", "t", "e", "d",
          " ", "h", "o", "s", "t", " ", "e", "r", "r", "o", "r">>) @@
    ("Stream closed" :>
        <<"S", "t", "r", "e", "a", "m", " ", "c", "l", "o", "s", "e", "d">>) @@
    ("Invalid stream" :>
        <<"I", "n", "v", "a", "l", "i", "d", " ", "s", "t", "r", "e", "a",
          "m">>) @@
    ("Stream is stopped" :>
        <<"S", "t", "r", "e", "a", "m", " ", "i", "s", " ", "s", "t", "o",
          "p", "p", "e", "d">>) @@
    ("Wait timed out" :>
        <<"W", "a", "i", "t", " ", "t", "i", "m", "e", "d", " ", "o", "u",
          "t">>)

\* the exceptions a read raises: an OSError or another Exception, with a text
ReadErrors == [oserror : BOOLEAN, msg : DOMAIN ErrorText]

\* _recording_worker, lines 419-424 and 450-456: the handlers. An OSError
\* whose text holds one of the two device texts breaks the loop; what is
\* re-raised, and any other exception, breaks it when its lower-cased text
\* holds "invalid" or "closed"; after any other the loop goes on
Classify(e) ==
    IF /\ e.oserror
       /\ \/ Contains(ErrorText["unanticipated host error"], ErrorText[e.msg])
          \/ Contains(ErrorText["device unavailable"], ErrorText[e.msg])
    THEN "device"
    ELSE IF \/ Contains(<<"i", "n", "v", "a", "l", "i", "d">>,
                        lower(ErrorText[e.msg]))
            \/ Contains(<<"c", "l", "o", "s", "e", "d">>,
                        lower(ErrorText[e.msg]))
    THEN "invalid"
    ELSE "transient"

\* the exceptions after which the loop does not go on
FatalErrors == {e \in ReadErrors : Classify(e) # "transient"}

\* what the handlers make of the exceptions a running stream raises, of the
\* "Stream is stopped" of a stopped one and of the "Stream closed" of a
\* closed one
RunningRaises == {Classify(e) : e \in ReadErrors}

StoppedRaises == {Classify(e) : e \in {[oserror |-> TRUE,
                                        msg |-> "Stream is stopped"]}}

ClosedRaises == {Classify(e) : e \in {[oserror |-> TRUE,
                                       msg |-> "Stream closed"]}}

\* what stream.read() can do on a stream in this state: return a buffer,
\* return nothing, or raise
ReadOutcomes(state) ==
    CASE state = "active" -> {"data", "empty"} \cup RunningRaises
      [] state = "stopped" -> StoppedRaises
      [] OTHER -> ClosedRaises

\* the worker's record after a read that returned or raised and left it in
\* the loop
AfterRead(w, appended) ==
    [workers[w] EXCEPT
       !.pc = "loop",
       !.ref = 0,
       !.late = IF config.maxSet /\ config.max_duration # 0 /\
                   now - workers[w].start_time >= config.max_duration
                THEN Inc2(@) ELSE @,
       !.post = IF appended /\ workers[w].cancelled THEN Inc2(@) ELSE @]

\* an error handler that leaves the loop after every error
AfterErrorLeaves(w) ==
    [AfterRead(w, FALSE) EXCEPT !.pc = "finally", !.retry = TRUE]

\* _recording_worker, lines 450-456: after an error that is not fatal the
\* loop goes on ("Continue recording for other types of errors")
AfterError(w) == [AfterRead(w, FALSE) EXCEPT !.retry = TRUE]

\* _recording_worker, lines 417-456: the read returns or raises; a buffer is
\* appended and counted and its level examined; errors are classified. With
\* self._stats = None line 429 raises AttributeError after the append: the
\* level is not examined, and the handler of line 450 keeps the loop going.
worker_read(w) ==
    /\ workers[w].pc = "reading"
    /\ \E out \in ReadOutcomes(streams[workers[w].ref].state) :
         CASE out = "data" ->
                /\ nchunks < MaxChunks
                /\ nchunks' = nchunks + 1
                /\ \E data \in Buffers :
                     /\ frames' = Append(frames,
                                         [stream |-> workers[w].ref,
                                          seq |-> nchunks + 1,
                                          data |-> data])
                     /\ has_audio_detected' =
                          IF stats.present /\ ~has_audio_detected
                          THEN AudioLevelAbove(data, audio_threshold)
                          ELSE has_audio_detected
                /\ frames_captured' = frames_captured + 1
                /\ stats' = IF stats.present
                            THEN [stats EXCEPT !.samples_recorded =
                                                 @ + chunk_size]
                            ELSE stats
                /\ workers' = [workers EXCEPT ![w] = AfterRead(w, TRUE)]
           [] out = "empty" ->
                /\ workers' = [workers EXCEPT ![w] = AfterRead(w, FALSE)]
                /\ UNCHANGED <<nchunks, frames, frames_captured, stats,
                               has_audio_detected>>
           [] out = "transient" ->
                /\ workers' = [workers EXCEPT ![w] = AfterError(w)]
                /\ UNCHANGED <<nchunks, frames, frames_captured, stats,
                               has_audio_detected>>
           [] OTHER ->
                /\ workers' = [Leave(w, out) EXCEPT ![w].ref = 0]
                /\ UNCHANGED <<nchunks, frames, frames_captured, stats,
                               has_audio_detected>>
    /\ UNCHANGED <<config, audio, stream, recording, thread, streams, file,
                   now, cpc, inClose, result, calls, hist, returned>>
    /\ UNCHANGED envvars

\* _recording_worker, lines 426-429, run by two threads whose reads have
\* both returned a buffer: both buffers are appended (list.append is atomic),
\* while "self._frames_captured += 1" and "samples_recorded += chunk_size"
\* are a load, an addition and a store each, and a thread that loads before
\* the other has stored overwrites the other's increment. lost_captured and
\* lost_samples say which of the two additions lost one (with neither the
\* step is two worker_read steps)
worker_read_both(w, v) ==
    /\ w # v
    /\ workers[w].pc = "reading"
    /\ workers[v].pc = "reading"
    /\ "data" \in ReadOutcomes(streams[workers[w].ref].state)
    /\ "data" \in ReadOutcomes(streams[workers[v].ref].state)
    /\ nchunks + 2 <= MaxChunks
    /\ nchunks' = nchunks + 2
    /\ \E first, second \in Buffers :
         /\ frames' = frames \o
                        <<[stream |-> workers[w].ref, seq |-> nchunks + 1,
                           data |-> first],
                          [stream |-> workers[v].ref, seq |-> nchunks + 2,
                           data |-> second]>>
         /\ has_audio_detected' =
              IF stats.present /\ ~has_audio_detected
              THEN \/ AudioLevelAbove(first, audio_threshold)
                   \/ AudioLevelAbove(second, audio_threshold)
              ELSE has_audio_detected
    /\ \E lost_captured, lost_samples \in BOOLEAN :
         /\ lost_captured \/ lost_samples
         /\ frames_captured' = frames_captured +
                                  (IF lost_captured THEN 1 ELSE 2)
         /\ stats' = IF stats.present
                     THEN [stats EXCEPT !.samples_recorded =
                             @ + (IF lost_samples THEN 1 ELSE 2) * chunk_size]
                     ELSE stats
    /\ workers' = [workers EXCEPT ![w] = AfterRead(w, TRUE),
                                  ![v] = AfterRead(v, TRUE)]
    /\ UNCHANGED <<config, audio, stream, recording, thread, streams, file,
                   now, cpc, inClose, result, calls, hist, returned>>
    /\ UNCHANGED envvars

\* _recording_worker, lines 461-469: the finally block, on the stream
\* self._stream names at that moment: an open running stream is stopped and
\* closed; is_stopped() on a closed one raises out of the thread
worker_finally(w) ==
    /\ workers[w].pc = "finally"
    /\ \E seen \in Observed(IF stream = 0 THEN "none"
                                          ELSE streams[stream].state) :
         /\ streams' = IF stream = 0 THEN streams
                       ELSE [streams EXCEPT
                               ![stream].state =
                                   IF seen = "active" THEN "closed" ELSE seen,
                               ![stream].closes =
                                   IF seen = "active" THEN Inc2(@) ELSE @]
         /\ workers' = [workers EXCEPT
                         ![w] = [NoWorker EXCEPT !.pc = "done",
                                                 !.escaped = seen = "closed",
                                                 !.lost = workers[w].lost]]
    /\ UNCHANGED <<config, audio, stream, recording, thread, frames, stats,
                   frames_captured, file, now, nchunks, cpc, inClose, result,
                   calls, hist>>
    /\ UNCHANGED <<has_audio_detected, returned>>
    /\ UNCHANGED envvars

\* ------------------------------------------------- the environment
\* one second passes
Tick ==
    /\ now < MaxTime
    /\ now' = now + 1
    /\ UNCHANGED <<config, audio, stream, recording, thread, frames, stats,
                   frames_captured, streams, workers, file, nchunks, cpc,
                   inClose, result, calls, hist>>
    /\ UNCHANGED <<has_audio_detected, returned>>
    /\ UNCHANGED envvars

\* ------------------------------------------------- quick_record
\* str.lower() of a format name, as a format name
LowerName(s) == CHOOSE t \in DOMAIN Spelling : Spelling[t] = Lowered[s]

\* quick_record, line 90: effective_duration
EffectiveDuration(duration) ==
    IF duration = -1 THEN ManualSeconds ELSE duration

\* time.sleep(1) returns: a second has passed (the clock stays at its horizon)
SecondPasses == now' = IF now < MaxTime THEN now + 1 ELSE now

\* an error handler that writes nothing
ErrorUnreported == <<>>

\* record_worker, lines 80-84, 202-206 and 209-213: the error status
ErrorStatus == <<"error">>

\* a stop marker that is looked at in manual mode only
StopSignalledManualOnly == signal /\ record_worker.duration = -1

\* record_worker, line 142: if stop_signal_file.exists()
StopSignalled == signal

\* record_worker, line 74: AudioRecorder(), whose __init__ raises
\* AudioRecorderError where PyAudio does not start
rw_new ==
    /\ record_worker.pc = "new"
    /\ IF host.pyaudio_available /\ host.starts
       THEN /\ record_worker' = [record_worker EXCEPT !.pc = "configure"]
            /\ UNCHANGED statuses
       ELSE /\ record_worker' = [record_worker EXCEPT !.pc = "done"]
            /\ statuses' = statuses \o ErrorStatus
    /\ UNCHANGED signal
    /\ UNCHANGED <<recvars, devvars, purevars>>

\* record_worker, lines 77-95: set_device_auto(); without a device the
\* error status is written and the thread returns; with one,
\* max_duration and audio_format are assigned to the configuration
rw_configure ==
    /\ record_worker.pc = "configure"
    /\ \E auto \in {SetDeviceAuto(host, platform, config)} :
         IF auto.returns
         THEN /\ config' = [auto.config EXCEPT
                              !.maxSet = record_worker.duration # -1,
                              !.max_duration =
                                  IF record_worker.duration = -1
                                  THEN 0 ELSE record_worker.duration,
                              !.audio_format =
                                  LowerName(record_worker.audio_format)]
              /\ record_worker' = [record_worker EXCEPT !.pc = "start"]
              /\ UNCHANGED statuses
         ELSE /\ record_worker' = [record_worker EXCEPT !.pc = "done"]
              /\ statuses' = statuses \o ErrorStatus
              /\ UNCHANGED config
    /\ UNCHANGED signal
    /\ UNCHANGED <<audio, stream, recording, thread, frames, stats,
                   frames_captured, streams, workers, file, now, nchunks,
                   cpc, inClose, result, calls, hist, has_audio_detected,
                   returned>>
    /\ UNCHANGED <<devvars, purevars>>

\* record_worker, line 107: recorder.start_recording(filename=filename)
rw_start ==
    /\ record_worker.pc = "start"
    /\ StartRecording
    /\ record_worker' = [record_worker EXCEPT !.pc = "starting"]
    /\ UNCHANGED <<statuses, signal>>
    /\ UNCHANGED <<devvars, purevars>>

\* record_worker, lines 107-131: start_recording has returned, and the
\* first "recording" status is written, or it has raised, and the handler
\* writes the error status
rw_started ==
    /\ record_worker.pc = "starting"
    /\ cpc = "idle"
    /\ IF result.error = "none"
       THEN /\ statuses' = Append(statuses, "recording")
            /\ record_worker' =
                 [record_worker EXCEPT
                    !.i = 0,
                    !.pc = IF EffectiveDuration(record_worker.duration) > 0
                           THEN "loop" ELSE "stop"]
       ELSE /\ statuses' = statuses \o ErrorStatus
            /\ record_worker' = [record_worker EXCEPT !.pc = "done"]
    /\ UNCHANGED signal
    /\ UNCHANGED <<recvars, devvars, purevars>>

\* record_worker, lines 134-173: one iteration of the loop: sleep, look for
\* the stop marker, and either remove it and leave the loop or write a
\* "recording" status
rw_iteration ==
    /\ record_worker.pc = "loop"
    /\ SecondPasses
    /\ IF StopSignalled
       THEN /\ signal' = FALSE
            /\ record_worker' = [record_worker EXCEPT !.pc = "stop"]
            /\ UNCHANGED statuses
       ELSE /\ statuses' = Append(statuses, "recording")
            /\ record_worker' =
                 [record_worker EXCEPT
                    !.i = @ + 1,
                    !.pc = IF record_worker.i + 1 <
                                EffectiveDuration(record_worker.duration)
                           THEN "loop" ELSE "stop"]
            /\ UNCHANGED signal
    /\ UNCHANGED <<config, audio, stream, recording, thread, frames, stats,
                   frames_captured, streams, workers, file, nchunks, cpc,
                   inClose, result, calls, hist, has_audio_detected,
                   returned>>
    /\ UNCHANGED <<devvars, purevars>>

\* record_worker, line 176: recorder.stop_recording()
rw_stop ==
    /\ record_worker.pc = "stop"
    /\ StopRecording
    /\ record_worker' = [record_worker EXCEPT !.pc = "stopping"]
    /\ UNCHANGED <<statuses, signal>>
    /\ UNCHANGED <<devvars, purevars>>

\* record_worker, lines 176-177: stop_recording has returned, or it has
\* raised, and the handler writes the error status
rw_stopped ==
    /\ record_worker.pc = "stopping"
    /\ cpc = "idle"
    /\ IF result.error = "none"
       THEN /\ record_worker' = [record_worker EXCEPT !.pc = "close"]
            /\ UNCHANGED statuses
       ELSE /\ statuses' = statuses \o ErrorStatus
            /\ record_worker' = [record_worker EXCEPT !.pc = "done"]
    /\ UNCHANGED signal
    /\ UNCHANGED <<recvars, devvars, purevars>>

\* record_worker, line 179: recorder.close()
rw_close ==
    /\ record_worker.pc = "close"
    /\ Close
    /\ record_worker' = [record_worker EXCEPT !.pc = "closing"]
    /\ UNCHANGED <<statuses, signal>>
    /\ UNCHANGED <<devvars, purevars>>

\* record_worker, lines 179-206: close has returned; after a second the
\* "completed" status is written
rw_complete ==
    /\ record_worker.pc = "closing"
    /\ cpc = "idle"
    /\ SecondPasses
    /\ statuses' = Append(statuses, "completed")
    /\ record_worker' = [record_worker EXCEPT !.pc = "done"]
    /\ UNCHANGED signal
    /\ UNCHANGED <<config, audio, stream, recording, thread, frames, stats,
                   frames_captured, streams, workers, file, nchunks, cpc,
                   inClose, result, calls, hist, has_audio_detected,
                   returned>>
    /\ UNCHANGED <<devvars, purevars>>

\* the frontend writes the stop marker
signal_written ==
    /\ ~signal
    /\ signal' = TRUE
    /\ UNCHANGED <<record_worker, statuses>>
    /\ UNCHANGED <<recvars, devvars, purevars>>

\* the steps of the record_worker thread, the calls it has made included
RecordWorker ==
    \/ rw_new
    \/ rw_configure
    \/ rw_start
    \/ start_open
    \/ rw_started
    \/ rw_iteration
    \/ rw_stop
    \/ stop_finish
    \/ rw_stopped
    \/ rw_close
    \/ close_terminate
    \/ rw_complete

\* the steps of one capture thread on its own
WorkerAlone(w) ==
    \/ worker_start(w)
    \/ worker_loop(w)
    \/ worker_read(w)
    \/ worker_finally(w)

Worker(w) ==
    \/ WorkerAlone(w)
    \/ \E v \in Ids : worker_read_both(w, v)

\* ------------------------------------------------- specifications
\* no quick_record is running
QuickIdle ==
    /\ record_worker = [pc |-> "none", i |-> 0, duration |-> 0,
                        audio_format |-> "wav"]
    /\ statuses = <<>>
    /\ signal = FALSE

\* a recorder that is not used
RecIdle == RecInit /\ config = NoConfig /\ QuickIdle

\* a platform with no endpoint
EmptyPlatform == [up |-> TRUE, endpoints |-> <<>>, default_input |-> -1,
                  default_output |-> -1]

\* a platform whose audio subsystem is down
DownPlatform == [EmptyPlatform EXCEPT !.up = FALSE]

\* a platform with one loopback device on Windows WASAPI
LoopbackPlatform ==
    [EmptyPlatform EXCEPT
       !.endpoints = <<[ok |-> TRUE, name |-> SpeakersName,
                        maxInputChannels |-> 4, maxOutputChannels |-> 2,
                        hostApi |-> 2]>>]

\* no DeviceManager is in use
NoManager ==
    /\ devices_cache = NoCache
    /\ dm_result = NoDmResult
    /\ dm_listed = NoListing

\* a device manager that is not used, on a platform with no endpoint
DevIdle ==
    /\ host = GoodHost
    /\ platform = EmptyPlatform
    /\ NoManager

\* no function is applied alone
PureIdle == input = <<>> /\ output = <<>>

\* a recorder that has a configuration never looks at the platform
Init ==
    /\ RecInit
    /\ host = GoodHost
    /\ platform \in IF config.present
                     THEN {EmptyPlatform}
                     ELSE {EmptyPlatform, DownPlatform, LoopbackPlatform}
    /\ NoManager
    /\ PureIdle
    /\ QuickIdle

Next ==
    \/ start_recording
    \/ start_open
    \/ stop_recording
    \/ stop_finish
    \/ close
    \/ close_terminate
    \/ \E w \in Ids : Worker(w)
    \/ Tick

\* the recorder: start, stop, close, the capture threads, the clock
Spec == Init /\ [][Next]_vars

\* a recorder configured with a duration limit and the wav format; no step of
\* the recorder gives or takes a limit, and the loop does not look at the
\* format
DurationInit ==
    /\ Init
    /\ config.maxSet
    /\ config.max_duration >= 1
    /\ config.audio_format = "wav"

\* the threads are scheduled, pending reads return and time passes
FairSpec ==
    /\ DurationInit
    /\ [][Next]_vars
    /\ \A w \in Ids : WF_vars(Worker(w))
    /\ WF_vars(Tick)

StatsNext ==
    \/ Next
    \/ get_current_stats

\* the recorder with a controller that also reads the statistics
StatsSpec == Init /\ [][StatsNext]_vars

DevSpecInit == RecIdle /\ DevInit /\ PureIdle

DevNext ==
    \/ list_all_devices
    \/ get_default_speakers
    \/ get_recording_capable_devices
    \/ subsystem_changes
    \/ endpoint_removed
    \/ default_output_moves

\* the device manager over a changing platform
DevSpec == DevSpecInit /\ [][DevNext]_vars

\* machines on which set_device_auto is called: a good one, one without
\* Windows WASAPI, one on which PyAudio does not start
AutoHosts == {GoodHost,
              [GoodHost EXCEPT !.host_apis = <<"MME">>],
              [GoodHost EXCEPT !.starts = FALSE]}

AutoInit ==
    /\ RecInit
    /\ config \in {NoConfig,
                    [present |-> TRUE, maxSet |-> TRUE, max_duration |-> 1,
                     audio_format |-> "m4a", device |-> ExplicitDevice,
                     channels |-> 2]}
    /\ host \in AutoHosts
    /\ platform \in Platforms
    /\ NoManager
    /\ PureIdle
    /\ QuickIdle

AutoNext ==
    \/ set_device_auto
    \/ subsystem_changes
    \/ endpoint_removed
    \/ default_output_moves

\* automatic device configuration over a changing platform
AutoSpec == AutoInit /\ [][AutoNext]_vars

InitSpecInit ==
    /\ RecIdle
    /\ host \in Hosts
    /\ platform = EmptyPlatform
    /\ NoManager
    /\ PureIdle

\* the construction of a DeviceManager
InitSpec == InitSpecInit /\ [][DeviceManager_init]_vars

NameInit ==
    /\ RecIdle
    /\ DevIdle
    /\ input \in NameInputs
    /\ output = <<>>

\* the file name of a recording and the container written to it
NameSpec == NameInit /\ [][name_and_write]_vars

\* the file name quick_record reports and the one its recorder writes
PathSpec == NameInit /\ [][quick_record_names]_vars

SaveInit ==
    /\ RecIdle
    /\ DevIdle
    /\ input \in SaveInputs
    /\ output = <<>>

\* the errors of the save at the end of stop_recording
SaveSpec == SaveInit /\ [][save_alone]_vars

QualityInit ==
    /\ RecIdle
    /\ DevIdle
    /\ input \in [quality_name : QualityNames]
    /\ output = <<>>

\* lookups of the quality presets
QualitySpec == QualityInit /\ [][RecordingQuality_get]_vars

\* quick_record(duration, audio_format=...) has started its thread, on a
\* machine and a platform as they may be
QuickInit ==
    /\ RecInit
    /\ config = NoConfig
    /\ host \in AutoHosts
    /\ platform \in {EmptyPlatform, DownPlatform, LoopbackPlatform}
    /\ NoManager
    /\ PureIdle
    /\ record_worker \in [pc : {"new"}, i : {0}, duration : {-1, 0, 1, 2},
                          audio_format : {"wav", "M4A"}]
    /\ statuses = <<>>
    /\ signal = FALSE

QuickNext ==
    \/ RecordWorker
    \/ \E w \in Ids : WorkerAlone(w)
    \/ Tick
    \/ signal_written

\* one quick_record session: its thread, the capture threads of its
\* recorder, the clock and the frontend; the threads are scheduled
QuickSpec ==
    /\ QuickInit
    /\ [][QuickNext]_vars
    /\ WF_vars(RecordWorker)
    /\ \A w \in Ids : WF_vars(WorkerAlone(w))

\* ================================================================ claims

\* C1 (as claimed): a start() on a session whose earlier start() succeeded
\* and on which stop() has not been called is rejected with the
\* already-recording error and leaves frames, statistics and stream unchanged;
\* also after the loop has ended on its own.
C1_StartOnOpenSessionRejected ==
    [][(hist.sessionOpen /\ start_recording) =>
         /\ result'.error = "RecordingInProgressError"
         /\ UNCHANGED <<frames, stats, stream>>]_vars

C3_NothingToStop ==
    [][(frames = <<>> /\ ~stats.present /\ stop_recording) =>
         /\ result' = Raised("stop", "AudioRecorderError",
                             "No recording to save", "none")
         /\ ~recording /\ ~recording'
         /\ cpc' = "idle"
         /\ UNCHANGED <<config, audio, stream, thread, frames, stats,
                        frames_captured, streams, workers, file, hist>>]_vars

\* stop() has raised the nothing-to-stop error on a session whose only start
\* failed
C3_Witness ==
    /\ result = Raised("stop", "AudioRecorderError", "No recording to save",
                       "none")
    /\ hist.used
    /\ NextId = 1

\* C4: a start() whose stream open fails raises the start error carrying the
\* cause, with is_recording() false during and after the call and no thread
\* launched; is_recording() becomes true only in the step that opens a stream.
C4_FailedOpenNeverRecording ==
    /\ [](cpc = "start_open" => ~recording)
    /\ [][(start_open /\ result'.error # "none") =>
            /\ result'.error = "AudioRecorderError"
            /\ result'.msg = "Failed to start recording"
            /\ result'.cause \in {"OSError", "AttributeError"}
            /\ ~recording /\ ~recording'
            /\ stream' = 0
            /\ UNCHANGED <<thread, workers>>]_vars
    /\ [][(~recording /\ recording') =>
            /\ start_open
            /\ stream' # 0
            /\ streams[stream'].state = "unopened"
            /\ streams'[stream'].state = "active"
            /\ workers'[stream'].pc = "start"]_vars

\* a start() has failed at the stream open
C4_Witness == result.op = "start" /\ result.msg = "Failed to start recording"
              /\ result.cause = "OSError" /\ ~recording

\* C5 (as claimed): a stream is never closed twice, and once the thread
\* started for it has ended the stream has been closed.
C5_StreamClosedExactlyOnce ==
    \A s \in Ids :
      /\ streams[s].closes <= 1
      /\ workers[s].pc = "done" => streams[s].closes = 1

\* C6: the PyAudio handle is terminated at most once; it is gone exactly when
\* it has been terminated once; every close() ends with it terminated once; a
\* close() during a recording stops the recording before terminating.
C6_TerminatedExactlyOnce ==
    /\ [](hist.terminated <= 1 /\ (audio = "None" <=> hist.terminated = 1))
    /\ [](hist.closes >= 1 => hist.terminated = 1)
    /\ [][close_terminate =>
            ~recording /\ audio' = "None" /\ hist'.terminated = 1]_vars
    /\ [][(close /\ recording) =>
            ~recording' /\ cpc' = "stop_join" /\ audio' = audio]_vars

\* close() has returned twice, the first time on a session in use
C6_Witness == hist.closes = 2 /\ hist.terminated = 1 /\ hist.used

\* C7 (as claimed): the encoder runs at most once on a recording's frames,
\* and the buffer is empty once it has run.
C7_FramesConsumedOnce ==
    /\ hist.saves <= 1
    /\ (hist.saves >= 1 /\ cpc = "idle") => frames = <<>>

\* C8 (as claimed): after a successful stop() in wav format the file holds
\* the appended chunks in order, and its frame count is chunk_size times the
\* number of chunks and equals the samples_recorded of the returned statistics.
C8_WavHoldsCapturedChunks ==
    (hist.savedOk /\ config.audio_format = "wav") =>
      /\ file.content = frames
      /\ file.nframes = chunk_size * Len(frames)
      /\ file.nframes = stats.samples_recorded

\* C9: with max_duration >= 1 the loop never takes the duration exit before
\* the duration has elapsed, sees at most one read return once it has
\* elapsed, and (within the clock horizon) ends.
C9_DurationBound ==
    /\ [](\A w \in Ids : ~workers[w].early /\ workers[w].late <= 1)
    /\ \A w \in Ids :
         (/\ workers[w].pc = "loop"
          /\ config.maxSet /\ config.max_duration >= 1
          /\ workers[w].start_time + config.max_duration <= MaxTime)
           ~> (workers[w].pc = "done")

\* with no stop() call, a loop has left on the duration condition after one
\* read that returned once the duration had elapsed
C9_Witness ==
    \E w \in Ids : /\ workers[w].pc = "finally"
                   /\ workers[w].late = 1
                   /\ ~workers[w].cancelled
                   /\ now - workers[w].start_time >= config.max_duration
                   /\ config.maxSet /\ config.max_duration >= 1

\* C10 (as claimed): a loop that stop() has cancelled appends at most one
\* further chunk and does not pass its next check.
C10_CancelledLoopEnds ==
    \A w \in Ids :
      workers[w].cancelled => workers[w].post <= 1 /\ ~workers[w].resumed

\* C11 (as claimed): the audio-detected flag never goes back to false, turns
\* true only in a step that appends a chunk whose RMS is above the threshold,
\* and is true after every step that appends such a chunk.
C11_AudioDetectedLatch ==
    /\ [][has_audio_detected => has_audio_detected']_vars
    /\ [][(~has_audio_detected /\ has_audio_detected') =>
            /\ nchunks' = nchunks + 1
            /\ SumOfSquares(Unpack(frames'[Len(frames')].data)) >
                 audio_threshold * audio_threshold *
                 Len(Unpack(frames'[Len(frames')].data))]_vars
    /\ [][(/\ nchunks' = nchunks + 1
           /\ SumOfSquares(Unpack(frames'[Len(frames')].data)) >
                audio_threshold * audio_threshold *
                Len(Unpack(frames'[Len(frames')].data)))
          => has_audio_detected']_vars

C13_StatsAfterFailedSave ==
    hist.saveFailed =>
      /\ ~recording
      /\ stats.present /\ stats.ended
      /\ stats.duration = stats.end_time - stats.start_time
      /\ stats.samples_recorded = chunk_size * hist.atStop

\* C14 (as claimed): what the caller holds from get_current_stats() keeps the
\* values it had when the call returned.
C14_StatsSnapshot ==
    returned.kind = "stats" => Deref(returned) = returned.at

\* C15: once a listing has succeeded, the cache holds what the last
\* successful listing returned; a list call without refresh returns it without
\* querying the platform, whatever the platform looks like by then; a list
\* call with refresh on a platform that is up enumerates it and replaces the
\* cache with the result.
C15_ListingCached ==
    /\ [](dm_listed.done =>
            devices_cache.present /\ devices_cache.list = dm_listed.list)
    /\ [][(list_all_devices /\ ~dm_result'.refresh /\ dm_listed.done) =>
            /\ dm_result'.error = "none"
            /\ dm_result'.list = dm_listed.list
            /\ ~dm_result'.queried
            /\ devices_cache' = devices_cache]_vars
    /\ [][(list_all_devices /\ dm_result'.refresh /\ platform.up) =>
            /\ dm_result'.error = "none"
            /\ dm_result'.queried
            /\ dm_result'.list = EnumerateFrom(platform, 0)
            /\ devices_cache' = [present |-> TRUE,
                                 list |-> EnumerateFrom(platform, 0)]]_vars

\* a list call without refresh has returned cached devices that an
\* enumeration of the platform as it is now would not return
C15_Witness ==
    /\ dm_result.op = "list" /\ ~dm_result.refresh
    /\ dm_result.error = "none" /\ ~dm_result.queried
    /\ dm_result.list # <<>>
    /\ platform.up
    /\ dm_result.list # EnumerateFrom(platform, 0)

\* C16 (as claimed): a listing that enumerates a platform that is up returns
\* one record, in enumeration order and with the endpoint's name and channel
\* counts, for exactly the endpoints whose device-info and host-API queries
\* succeed.
C16_OneRecordPerEndpoint ==
    [][(list_all_devices /\ dm_result'.queried /\ platform.up) =>
         /\ dm_result'.error = "none"
         /\ {dm_result'.list[k].index : k \in 1..Len(dm_result'.list)} =
              {i \in 0..(Len(platform.endpoints) - 1) :
                 /\ platform.endpoints[i + 1].ok
                 /\ platform.endpoints[i + 1].hostApi \in
                      1..Len(HostApiNames)}
         /\ \A j, k \in 1..Len(dm_result'.list) :
              j < k => dm_result'.list[j].index < dm_result'.list[k].index
         /\ \A k \in 1..Len(dm_result'.list) :
              /\ dm_result'.list[k].name =
                   platform.endpoints[dm_result'.list[k].index + 1].name
              /\ dm_result'.list[k].max_input_channels =
                   platform.endpoints[dm_result'.list[k].index + 1]
                       .maxInputChannels]_vars

\* C17: a listing that has to enumerate while the subsystem is unavailable
\* raises the device-access error and leaves the cache as it was; a list call
\* without refresh that follows the failure returns the devices cached before.
C17_UnavailableKeepsCache ==
    /\ [][(/\ list_all_devices
           /\ ~platform.up
           /\ dm_result'.refresh \/ ~devices_cache.present) =>
            /\ dm_result'.error = "AudioDeviceError"
            /\ dm_result'.queried
            /\ devices_cache' = devices_cache]_vars
    /\ [][(/\ list_all_devices
           /\ dm_result.error = "AudioDeviceError"
           /\ devices_cache.present
           /\ ~dm_result'.refresh) =>
            /\ dm_result'.error = "none"
            /\ dm_result'.list = devices_cache.list
            /\ dm_result'.list = dm_listed.list]_vars

\* a refreshing list call has failed on a manager that holds cached devices
C17_Witness ==
    /\ dm_result.op = "list" /\ dm_result.refresh
    /\ dm_result.error = "AudioDeviceError"
    /\ ~platform.up
    /\ devices_cache.present /\ devices_cache.list # <<>>

\* C18 (as claimed): a listing that enumerates returns every endpoint whose
\* queries succeed with is_loopback true exactly when its lower-cased name
\* holds one of the indicators, or it has input channels > 0, output channels
\* = 0 and is on the Windows WASAPI host API.
C18_LoopbackClassification ==
    [][(list_all_devices /\ dm_result'.queried /\ platform.up) =>
         \A i \in 0..(Len(platform.endpoints) - 1) :
           (/\ platform.endpoints[i + 1].ok
            /\ platform.endpoints[i + 1].hostApi \in 1..Len(HostApiNames))
           => \E k \in 1..Len(dm_result'.list) :
                /\ dm_result'.list[k].index = i
                /\ dm_result'.list[k].is_loopback <=>
                     \/ HoldsIndicator[platform.endpoints[i + 1].name]
                     \/ /\ platform.endpoints[i + 1].maxInputChannels > 0
                        /\ platform.endpoints[i + 1].maxOutputChannels = 0
                        /\ Lowered[HostApiNames[
                                     platform.endpoints[i + 1].hostApi]] =
                             windows_wasapi]_vars

\* C19 (as claimed): every device a listing enumerates has is_default true
\* exactly when its index is the default input index or the default output
\* index the platform reports (-1 stands for a default that is not reported).
C19_DefaultClassification ==
    [][(list_all_devices /\ dm_result'.queried /\ platform.up) =>
         \A k \in 1..Len(dm_result'.list) :
           dm_result'.list[k].is_default <=>
             \/ dm_result'.list[k].index = platform.default_input
             \/ dm_result'.list[k].index = platform.default_output]_vars

\* C20: get_default_speakers() raises only when the listing does; otherwise
\* it returns the first default loopback device, else the first loopback
\* device, else the first default device among those on Windows WASAPI with
\* output channels > 0, else the first of those, else None.
C20_DefaultSpeakers ==
    /\ [][(get_default_speakers /\ (devices_cache.present \/ platform.up))
            => dm_result'.error = "none"]_vars
    /\ [][(get_default_speakers /\ dm_result'.error = "none") =>
            LET L == dm_result'.list
                Min(S) == CHOOSE x \in S : \A y \in S : x <= y
                Lb == {k \in 1..Len(L) : L[k].is_loopback}
                LbD == {k \in Lb : L[k].is_default}
                W == {k \in 1..Len(L) :
                        /\ L[k].host_api = HostApiNames[2]
                        /\ L[k].max_output_channels > 0}
                WD == {k \in W : L[k].is_default}
            IN  dm_result'.device =
                  IF LbD # {} THEN L[Min(LbD)]
                  ELSE IF Lb # {} THEN L[Min(Lb)]
                  ELSE IF WD # {} THEN L[Min(WD)]
                  ELSE IF W # {} THEN L[Min(W)]
                  ELSE NoDevice]_vars

\* get_default_speakers() has passed over the first loopback device for a
\* later one that is also default
C20_Witness ==
    /\ dm_result.op = "speakers" /\ dm_result.error = "none"
    /\ Len(dm_result.list) = 2
    /\ dm_result.list[1].is_loopback /\ ~dm_result.list[1].is_default
    /\ dm_result.list[2].is_loopback /\ dm_result.list[2].is_default
    /\ dm_result.device = dm_result.list[2]

\* C21: get_recording_capable_devices() returns exactly the listed devices
\* with input channels > 0, each once, in non-increasing order of the
\* preference score (30 for the Windows WASAPI host API, 20 for loopback, 10
\* for default), devices of equal score in the order of the listing.
C21_RecordingCapableOrder ==
    [][(get_recording_capable_devices /\ dm_result'.error = "none") =>
         LET L == dm_result'.list
             R == dm_result'.capable
             Score(d) == (IF d.host_api = HostApiNames[2] THEN 30 ELSE 0) +
                         (IF d.is_loopback THEN 20 ELSE 0) +
                         (IF d.is_default THEN 10 ELSE 0)
             Pos(d) == CHOOSE k \in 1..Len(L) : L[k] = d
         IN  /\ {R[k] : k \in 1..Len(R)} =
                  {L[k] : k \in {i \in 1..Len(L) :
                                   L[i].max_input_channels > 0}}
             /\ \A j, k \in 1..Len(R) : j < k => R[j] # R[k]
             /\ \A j, k \in 1..Len(R) :
                  j < k => Score(R[j]) >= Score(R[k])
             /\ \A j, k \in 1..Len(R) :
                  (j < k /\ Score(R[j]) = Score(R[k]))
                  => Pos(R[j]) < Pos(R[k])]_vars

\* get_recording_capable_devices() has returned two devices of equal score,
\* the earlier endpoint first
C21_Witness ==
    /\ dm_result.op = "capable" /\ dm_result.error = "none"
    /\ Len(dm_result.capable) = 2
    /\ sort_key(dm_result.capable[1]) = sort_key(dm_result.capable[2])
    /\ dm_result.capable[1].index < dm_result.capable[2].index
    /\ Len(dm_listed.list) = 2

\* C22: set_device_auto() raises nothing; it returns true exactly when the
\* catalog of a manager constructed for the call lists a device with input
\* channels > 0 (a catalog that cannot be constructed or listed holds none);
\* it then configures the first device of the preference order, which has
\* input channels > 0, with min(max input channels, 2) channels, 1 or 2;
\* when it returns false the configuration is as it was.
C22_ConfigureAuto ==
    [][set_device_auto =>
         LET L == IF initialize_audio_system(host).error = "none" /\
                     platform.up
                  THEN EnumerateFrom(platform, 0) ELSE <<>>
             In == {k \in 1..Len(L) : L[k].max_input_channels > 0}
             Score(d) == (IF d.host_api = HostApiNames[2] THEN 30 ELSE 0) +
                         (IF d.is_loopback THEN 20 ELSE 0) +
                         (IF d.is_default THEN 10 ELSE 0)
         IN  /\ result'.error = "none"
             /\ result' = Ok("set_device_auto") <=> In # {}
             /\ result' = Ok("set_device_auto") =>
                  /\ config'.present
                  /\ \E k \in In :
                       /\ config'.device = L[k]
                       /\ \A j \in In \ {k} :
                            \/ Score(L[k]) > Score(L[j])
                            \/ Score(L[k]) = Score(L[j]) /\ k < j
                  /\ config'.device.max_input_channels > 0
                  /\ config'.channels =
                       (IF config'.device.max_input_channels < 2
                        THEN config'.device.max_input_channels ELSE 2)
                  /\ config'.channels \in {1, 2}
             /\ result' # Ok("set_device_auto") =>
                  /\ result' = ReturnedFalse("set_device_auto")
                  /\ config' = config]_vars

\* set_device_auto() has configured the second of two endpoints, a device
\* with four input channels, with two channels and the default format
C22_Witness ==
    /\ result = Ok("set_device_auto")
    /\ config.device.index = 1
    /\ config.device.max_input_channels = 4
    /\ config.channels = 2
    /\ config.audio_format = "wav"
    /\ Len(platform.endpoints) = 2

\* C23: a start() on a session with no configuration configures a device
\* before a stream is opened: no stream is ever opened without a
\* configuration. Where no device is found the call raises the recorder's
\* error for a failed configuration, opens no stream, creates no statistics
\* and leaves is_recording() false; where one is found the session holds the
\* configuration when the call goes on to open the stream.
C23_StartConfiguresFirst ==
    /\ []((\E i \in Ids : streams[i].state # "unopened") => config.present)
    /\ [][(start_recording /\ ~recording /\ ~config.present) =>
            LET L == IF platform.up THEN EnumerateFrom(platform, 0) ELSE <<>>
            IN  IF \A k \in 1..Len(L) : L[k].max_input_channels = 0
                THEN /\ result'.op = "start"
                     /\ result'.error = "AudioRecorderError"
                     /\ result'.msg = "Could not configure audio device"
                     /\ cpc' = "idle"
                     /\ streams' = streams /\ stream' = stream
                     /\ ~stats'.present
                     /\ ~recording'
                     /\ ~config'.present
                ELSE /\ config'.present
                     /\ config'.device.max_input_channels > 0
                     /\ streams' = streams
                     /\ cpc' = "start_open"]_vars

\* a start() on a session with no configuration has failed for want of a
\* device, on a platform whose subsystem is down
C23_Witness ==
    /\ result = AutoConfigFailed
    /\ ~config.present
    /\ ~platform.up
    /\ ~recording /\ ~stats.present
    /\ \A i \in Ids : streams[i].state = "unopened"

\* C25 (as claimed): where PyAudio starts and Windows WASAPI is not among the
\* host APIs, the construction of a DeviceManager raises
\* WASAPINotAvailableError, which an except clause for that class tells from
\* the AudioDeviceError raised where PyAudio does not start.
C25_NativeApiUnavailableError ==
    (/\ dm_result.op = "init"
     /\ host.pyaudio_available /\ host.starts /\ host.queries
     /\ \A i \in 1..Len(host.host_apis) :
          host.host_apis[i] # "Windows WASAPI")
    => dm_result.error = "WASAPINotAvailableError"

\* C24 (as claimed): for every file name and every configured format value
\* the name start() returns ends in ".wav" or ".m4a", the extension is the
\* container stop() writes, the name does not still end in a recognized
\* extension in front of it, and naming the returned name again returns it.
C24_NormalizedName ==
    output # <<>> =>
      LET path == output.path
          stem == SubSeq(path, 1, Len(path) - 4)
      IN  /\ EndsWith(path, DotWav) \/ EndsWith(path, DotM4a)
          /\ EndsWith(path, DotWav) <=> output.written = "wav"
          /\ EndsWith(path, DotM4a) <=> output.written = "m4a"
          /\ input.filename # <<>> =>
               \/ stem = StripOld(input.filename)
               \/ stem \o DotWav = StripOld(input.filename)
               \/ stem \o DotM4a = StripOld(input.filename)
          /\ OutputName(path, input.audio_format, input.timestamp) = path

\* C26 (as claimed): where m4a is configured and the transcoding backend is
\* missing (pydub cannot be imported, or it finds no ffmpeg to run), stop()
\* raises an error that differs, in class or in the class of its cause, from
\* the one it raises where writing the wav file fails.
C26_EncodingUnavailableError ==
    (/\ output # <<>>
     /\ input.audio_format = "m4a" /\ input.has_frames
     /\ \/ ~input.env.pydub_available
        \/ input.env.export \in {"ImportError", "FileNotFoundError"})
    => output # StopSave(save_recording("wav", [input.env EXCEPT
                                                  !.write = "OSError"]))

\* C29: every lookup of a name returns the entry of quick, standard,
\* professional or high where the name is that word in any letter case, each
\* word its own entry, and the professional entry for every other name;
\* lookups of one name return one entry.
C29_QualityLookup ==
    LET n == input.quality_name
        Is(word) == /\ Len(n) = Len(word)
                    /\ \A i \in 1..Len(n) :
                         n[i] \in {word[i], UpperChar(word[i])}
        Entry == IF Is(quick) THEN QUICK
                 ELSE IF Is(standard) THEN STANDARD
                 ELSE IF Is(high) THEN HIGH
                 ELSE PROFESSIONAL
    IN  /\ \A k \in 1..Len(output) : output[k] = Entry
        /\ Cardinality({QUICK, STANDARD, PROFESSIONAL, HIGH}) = 4
        /\ {<<e.sample_rate, e.channels, e.chunk_size>> :
               e \in {QUICK, STANDARD, PROFESSIONAL, HIGH}} =
             {<<16000, 1, 2048>>, <<44100, 2, 4096>>, <<48000, 2, 4096>>,
              <<96000, 2, 8192>>}

\* "hIgH" has been looked up twice and has given the high entry both times
C29_Witness ==
    /\ input = [quality_name |-> <<"h", "I", "g", "H">>]
    /\ output = <<HIGH, HIGH>>

\* C30 (as claimed): a thread that left its loop because the stream reported
\* itself stopped, or because a read raised a device-unavailable error, ends
\* with is_recording() false, although stop() has not been called since the
\* start.
C30_StreamLossMarksStopped ==
    [][\A w \in Ids :
         (/\ worker_finally(w)
          /\ workers[w].lost
          /\ thread = w
          /\ hist.sessionOpen)
         => ~recording']_vars

\* C27: a quick_record session ends, and ends with exactly one terminal
\* status ("completed" or "error"), which is the last status written; the
\* statuses before it are "recording" ones, one written when start_recording
\* has returned and one at each poll that found no stop marker; "completed"
\* is written only when stop_recording() has returned without raising, the
\* file saved.
C27_TerminalStatus ==
    /\ [](\A k \in 1..Len(statuses) :
            statuses[k] \in {"completed", "error"} => k = Len(statuses))
    /\ [](\A k \in 1..Len(statuses) :
            statuses[k] \in {"recording", "completed", "error"})
    /\ [](record_worker.pc = "done" <=>
            (statuses # <<>> /\
             statuses[Len(statuses)] \in {"completed", "error"}))
    /\ <>(record_worker.pc = "done")
    /\ [](record_worker.pc \in {"loop", "stop", "stopping", "close",
                                "closing"} =>
            statuses = [k \in 1..(record_worker.i + 1) |-> "recording"])
    /\ [][(record_worker.pc = "starting" /\ record_worker'.pc # "starting"
           /\ result.error = "none") =>
            statuses' = <<"recording">>]_vars
    /\ [][(record_worker.pc = "loop" /\ ~signal
           /\ record_worker' # record_worker) =>
            /\ statuses' = Append(statuses, "recording")
            /\ now' = IF now < MaxTime THEN now + 1 ELSE now]_vars
    /\ [](("completed" \in {statuses[k] : k \in 1..Len(statuses)}) =>
            /\ hist.savedOk
            /\ hist.saves = 1
            /\ file.exists)
    /\ [][(statuses' # statuses /\
           statuses'[Len(statuses')] = "completed") =>
            (record_worker.pc = "closing" /\ result.error = "none")]_vars

\* a session of two seconds has written its three "recording" statuses and
\* then "completed"
C27_Witness ==
    /\ record_worker.pc = "done"
    /\ record_worker.duration = 2
    /\ statuses = <<"recording", "recording", "recording", "completed">>

C31_NoExceptionEscapes ==
    \A w \in Ids : workers[w].pc = "done" => ~workers[w].escaped

\* C32 (as claimed): when the capture loop of the current recording has
\* ended because the stream reported itself stopped or the device was lost,
\* a stop_recording() that follows does not return as after an ordinary
\* recording.
C32_LoopErrorReported ==
    [][(/\ cpc = "stop_join"
        /\ ~inClose
        /\ cpc' = "idle"
        /\ thread # 0
        /\ workers[thread].pc = "done"
        /\ workers[thread].lost) =>
         result'.error # "none"]_vars

\* C33: a read error that the handlers do not classify as fatal leaves the
\* thread in its loop with the recording flag, the frame buffer, the two
\* counters and the statistics as they were, and the loop's next step reads
\* again unless one of its exit conditions holds; a read ends the loop only
\* by an OSError holding one of the two device texts or by an error whose
\* text holds "invalid" or "closed".
C33_TransientReadError ==
    /\ [][\A w \in Ids :
            (workers[w].pc = "reading" /\ workers'[w].retry) =>
              /\ workers'[w].pc = "loop"
              /\ UNCHANGED <<recording, frames, frames_captured, stats,
                             nchunks, has_audio_detected, stream,
                             streams>>]_vars
    /\ [][\A w \in Ids :
            (workers[w].retry /\ workers'[w].pc # workers[w].pc) =>
              \/ workers'[w].pc = "reading"
              \/ ~recording
              \/ DurationReached(now - workers[w].start_time)
              \/ stream = 0
              \/ streams'[stream].state # "active"]_vars
    /\ [][\A w \in Ids :
            (workers[w].pc = "reading" /\ workers'[w].pc = "finally") =>
              /\ ~workers'[w].retry
              /\ ReadOutcomes(streams[workers[w].ref].state) \cap
                   {"device", "invalid"} # {}]_vars
    /\ [](FatalErrors =
            [oserror : BOOLEAN, msg : {"Stream closed", "Invalid stream"}]
            \cup [oserror : {TRUE}, msg : {"device unavailable",
                                           "unanticipated host error"}])

\* a read has raised an error that is not fatal, in a recording that holds a
\* chunk: the thread is in its loop and the recording goes on
C33_Witness ==
    \E w \in Ids : /\ workers[w].retry
                   /\ workers[w].pc = "loop"
                   /\ thread = w
                   /\ recording
                   /\ frames # <<>>
                   /\ stats.samples_recorded = chunk_size * Len(frames)

\* C34 (as claimed): at any moment at most one capture thread of the session
\* is alive.
C34_OneCaptureThread ==
    Cardinality({w \in Ids : Alive(w)}) <= 1

\* C37 (as claimed): with max_duration = 0 the duration exit is taken at the
\* loop's first check: no thread of the session calls read, and no chunk is
\* captured.
C37_ZeroDurationExits ==
    (config.maxSet /\ config.max_duration = 0) =>
      /\ \A w \in Ids : workers[w].pc # "reading"
      /\ frames = <<>>

\* C38 (as claimed): right after a start_recording() that succeeded the
\* frames-captured counter is 0 and the audio-detected flag is false.
C38_CountersDescribeNewRecording ==
    [][(cpc = "start_open" /\ result' = Ok("start")) =>
         (frames_captured' = 0 /\ ~has_audio_detected')]_vars

\* C35 (as claimed): while a recording is in progress the total-frames
\* statistic and the frames-captured counter never decrease, a step that
\* appends chunks raises the first by chunk_size and the second by one for
\* each chunk appended, and of two successive get_current_stats() calls of
\* one recording the later does not return the smaller duration.
C35_StatisticsMonotonic ==
    /\ [][(recording /\ recording' /\ stats.present /\ stats'.present
           /\ stats'.start_time = stats.start_time
           /\ hist.sessionOpen /\ hist'.sessionOpen) =>
            /\ stats'.samples_recorded >= stats.samples_recorded
            /\ frames_captured' >= frames_captured
            /\ stats'.samples_recorded - stats.samples_recorded =
                 chunk_size * (Len(frames') - Len(frames))
            /\ frames_captured' - frames_captured =
                 Len(frames') - Len(frames)]_vars
    /\ [][(get_current_stats /\ recording /\ hist.sessionOpen
           /\ returned.kind = "stats" /\ returned.live) =>
            /\ returned'.at.duration >= returned.at.duration
            /\ returned'.at.samples_recorded >=
                 returned.at.samples_recorded]_vars

C39_ClosedOnEveryPath ==
    (/\ record_worker.pc = "done"
     /\ host.pyaudio_available
     /\ host.starts) =>
      (hist.closes >= 1 /\ audio = "None")

\* C40 (as claimed): the file name quick_record reports in its result and
\* its statuses is the name of the file its recorder writes, for every
\* filename argument and every format argument.
C40_ReportedPathIsWritten ==
    (output # <<>> /\ "reported" \in DOMAIN output) =>
      output.reported = output.written

====
